---- MODULE Spec2Model ----
\* Redemption engine of enterprise-subsidy: Subsidy.redeem and the operations it
\* drives (pricing lookup with its lru_cache, ledger create/commit/rollback, the
\* enrollment provisioner), run by several concurrent callers against one subsidy.
EXTENDS Integers, FiniteSets, Sequences, TLC

\* ---------------------------------------------------------------- bounds
\* Number of redeem calls made against the subsidy (concurrent and sequential).
MaxCalls == 3
\* The subsidy's starting balance, in whole dollars.
StartingBalanceDollars == 3
\* How many times the pricing oracle changes a listed price.
MaxPriceChanges == 1
\* How many redeem calls are in progress at the same time.
MaxInFlight == 2
\* How many redeem calls choose their arguments freely; a later call repeats the
\* arguments of an earlier one (a retry, or the same request sent again).
MaxFreshCalls == 2
\* Number of rows of a ledger that the read operations are called on.
MaxRows == 1
\* How many times create_transaction is called directly on one ledger.
MaxCreateCalls == 2
\* How many redeem calls run beside a read operation called directly.
MaxBeside == 1
\* How many direct price_for_content calls are in progress at the same time.
MaxOverlap == 2
\* A direct price_for_content call, or a cache_clear, runs beside a call in progress
\* while no content beyond this one has been asked for (the eviction from the full
\* cache is reached by calls made in turn).
MaxOverlapKeys == 2
\* How many GET requests the content-metadata endpoint is sent, at most that many
\* of them in progress at the same time.
MaxGets == 2
\* The highest listed price, in dollars, price_for_content converts.
MaxListedDollars == 20

\* ------------------------------------------------------- program constants
CENTS_PER_DOLLAR == 100
OCM_ENROLLMENT_REFERENCE_TYPE == "enterprise_fufillment_source_uuid"
\* @lru_cache(maxsize=64) on price_for_content
LRU_MAXSIZE == 64
CREATED == "created"
PENDING == "pending"
COMMITTED == "committed"
FAILED == "failed"

\* ------------------------------------------------------------ input domains
\* Python's None, and the values Python treats as false where the code tests
\* `if reference_id:` / `if not reference_type:` / `if not idempotency_key:`.
None == "None"
Falsy(x) == x \in {None, ""}

Calls == 1..MaxCalls
Learners == {1, 2}
Contents == {"course-1"}
Policies == {"policy-a", "policy-b"}
CallerKeys == {None, "key-1"}
\* Listed prices of the oracle, in whole dollars.
ListedPrices == {1, 2}
\* The oracle's answer for a content that is in no catalog of the customer:
\* get_course_price raises HTTPError with a 404 response.
NotListed == 0
\* What enterprise_client.enroll returns when it returns.
EnrollReturns == {None, "enr-1"}
\* Outcomes of one enroll call: it returns, it raises having done nothing, or
\* it raises (times out) after the enrollment took effect in the target system.
EnrollOutcomes == {"ok", "error", "timeout"}
StartingBalance == StartingBalanceDollars * CENTS_PER_DOLLAR

\* The in-memory value None where a Transaction object is expected.
NoTxn == [uuid |-> 0, idempotency_key |-> <<"none", 0, 0, "", "", "">>,
          quantity |-> 0, lms_user_id |-> 0, content_key |-> "",
          subsidy_access_policy_uuid |-> "", state |-> "",
          reference_id |-> None, reference_type |-> None]

NoArgs == [learner_id |-> 0, content_key |-> "", subsidy_access_policy_uuid |-> "",
           idempotency_key |-> None]

\* The argument tuples the calls draw from: one triple redeemed under both policies,
\* with and without a caller-supplied key, and a second learner.
RedeemArgs ==
  {[learner_id |-> 1, content_key |-> c, subsidy_access_policy_uuid |-> pol,
    idempotency_key |-> k] : c \in Contents, pol \in Policies, k \in CallerKeys}
  \cup {[learner_id |-> l, content_key |-> c, subsidy_access_policy_uuid |-> "policy-a",
         idempotency_key |-> None] : l \in Learners, c \in Contents}

NoResult == [kind |-> "none", txn |-> NoTxn, created |-> FALSE, error |-> ""]

VARIABLES
  ledger,        \* the ledger's Transaction rows (the database table)
  pc,            \* per call: where the call is in redeem / _create_redemption
  args,          \* per call: the arguments redeem was called with
  txn,           \* per call: the ledger_transaction object the call works (worked) on
  ref,           \* per call: the reference_id enroll returned
  result,        \* per call: what redeem returned or raised
  enrollOutcome, \* per call: the outcome of the call's enroll ("" before it)
  endedBefore,   \* per call: the calls that had ended when this call began
  oraclePrice,   \* the pricing oracle's listed price per content
  priceCache,    \* the lru_cache of price_for_content (0: no entry)
  priceChanges,  \* how many times the oracle's price has changed
  enrolled,      \* (learner, content) pairs the provisioner has given access to
  commitCase,    \* a direct commit_transaction call: object, row, arguments, outcome
  readCase,      \* a direct is_redeemable / get_redemption call: arguments, result
  priceCase,     \* direct price_for_content calls: the lru_cache, the oracle, the last call
  viewCase,      \* content-metadata requests: per GET its URL, the oracle's answer and
                 \* the response; and the page cache
  invoked,       \* per call: the operations _create_redemption has invoked, in order
  contentPrice,  \* per call, between its check and its creation: the content_price
                 \* its is_redeemable compared with the balance (0 otherwise)
  fetched,       \* per call: the price its price_for_content call in progress has got,
                 \* from the cache or from the catalog's answer (0: none)
  createCase     \* direct create_transaction calls: the arguments, the row returned

vars == <<ledger, pc, args, txn, ref, result, enrollOutcome,
          endedBefore, oraclePrice, priceCache, priceChanges, enrolled, commitCase,
          readCase, priceCase, viewCase, invoked, contentPrice, fetched, createCase>>

redeemVars == <<ledger, pc, args, txn, ref, result, enrollOutcome,
                endedBefore, oraclePrice, priceCache, priceChanges, enrolled>>

\* ------------------------------------------------------------------ ledger
RECURSIVE SumQuantity(_)
SumQuantity(rows) ==
  IF rows = {} THEN 0
  ELSE LET r == CHOOSE x \in rows : TRUE
       IN r.quantity + SumQuantity(rows \ {r})

\* Ledger.balance(): the starting value plus the committed transactions.
balance(led) == StartingBalance + SumQuantity({r \in led : r.state = COMMITTED})

\* create_idempotency_key_for_transaction(ledger, quantity, **metadata)
create_idempotency_key_for_transaction(quantity, learner_id, content_key, policy) ==
  <<"derived", quantity, learner_id, content_key, policy, "">>

\* A key the caller supplied.
caller_key(k) == <<"caller", 0, 0, "", "", k>>

\* The rows stored under an idempotency key (the key is unique: at most one).
existing_under_key(led, key) == {r \in led : r.idempotency_key = key}

\* A ledger whose new rows count at once: inserted in state committed.
new_row_committed(uuid, key, quantity, learner_id, content_key, policy) ==
  [uuid |-> uuid, idempotency_key |-> key, quantity |-> quantity,
   lms_user_id |-> learner_id, content_key |-> content_key,
   subsidy_access_policy_uuid |-> policy, state |-> COMMITTED,
   reference_id |-> None, reference_type |-> None]

\* The row the ledger inserts for a key it does not hold yet: state created.
new_row(uuid, key, quantity, learner_id, content_key, policy) ==
  [uuid |-> uuid, idempotency_key |-> key, quantity |-> quantity,
   lms_user_id |-> learner_id, content_key |-> content_key,
   subsidy_access_policy_uuid |-> policy, state |-> CREATED,
   reference_id |-> None, reference_type |-> None]

\* A create_transaction that inserts the new row already committed (state passed
\* wrongly to the ledger).
create_transaction_committed(led, uuid, key, quantity, learner_id, content_key, policy) ==
  IF existing_under_key(led, key) /= {}
  THEN CHOOSE r \in existing_under_key(led, key) : TRUE
  ELSE [new_row(uuid, key, quantity, learner_id, content_key, policy)
          EXCEPT !.state = COMMITTED]

\* create_transaction: the ledger's get-or-create under the idempotency key. The
\* row it returns: the existing one, or a new one in state created (its uuid is
\* fresh; the model names it after the call that inserts it).
create_transaction(led, uuid, key, quantity, learner_id, content_key, policy) ==
  IF existing_under_key(led, key) /= {}
  THEN CHOOSE r \in existing_under_key(led, key) : TRUE
  ELSE new_row(uuid, key, quantity, learner_id, content_key, policy)

\* Model.save(): write every field of the object to the row with its primary key.
save(led, obj) == {r \in led : r.uuid /= obj.uuid} \cup {obj}

\* ------------------------------------------------------------ Subsidy reads
all_transactions(led) == led

\* A lookup that filters by learner only (transactions_for_learner).
transactions_for_learner_only(led, lms_user_id, content_key) ==
  {r \in all_transactions(led) : r.lms_user_id = lms_user_id}

transactions_for_learner_and_content(led, lms_user_id, content_key) ==
  {r \in all_transactions(led) : r.lms_user_id = lms_user_id /\ r.content_key = content_key}

\* QuerySet.first() on a queryset with no ordering of its own: the row of lowest
\* primary key, a random uuid4; so any of the rows, or None when there is none.
first(rows) == IF rows = {} THEN {NoTxn} ELSE rows

\* A get_redemption that finds nothing.
get_redemption_none(led, learner_id, content_key) == {NoTxn}

\* get_redemption: what the query may return.
get_redemption(led, learner_id, content_key) ==
  first({r \in transactions_for_learner_and_content(led, learner_id, content_key) :
           r.state = COMMITTED})

current_balance(led) == balance(led)

\* price_for_content, lines 143-146, runs in three steps, and other calls run
\* between them: the lru_cache is probed; on a miss get_course_price asks the
\* catalog service and the call waits for the answer; the answer, converted, is
\* stored in the cache and returned. The lru_cache holds no lock while the wrapped
\* function runs.

\* The probe of the lru_cache: whether it holds a value for the content.
cache_hit(cache, content_key) == cache[content_key] /= 0

\* get_course_price raises HTTPError (a 404 response) for a content the oracle
\* does not list, and price_for_content has no except clause (line 145).
get_course_price_raises(oracle, content_key) == oracle[content_key] = NotListed

\* Line 146 on the catalog's answer. The oracle's prices here are whole dollars,
\* which int(float(price) * CENTS_PER_DOLLAR) converts to price * CENTS_PER_DOLLAR;
\* price_in_cents is the conversion of any listed price.
price_of_answer(oracle, content_key) == oracle[content_key] * CENTS_PER_DOLLAR

\* The lru_cache after a miss has got its value: the value is stored, unless
\* another call stored one for the key during the wait (the entry is then kept).
cache_after_store(cache, content_key, price) ==
  IF cache_hit(cache, content_key) THEN cache
  ELSE [cache EXCEPT ![content_key] = price]

\* A is_redeemable that finds every content redeemable.
is_redeemable_always(led, content_price) ==
  [redeemable |-> TRUE, price |-> content_price]

\* A is_redeemable that compares with > (the boundary excluded).
is_redeemable_strict(led, content_price) ==
  [redeemable |-> current_balance(led) > content_price, price |-> content_price]

\* is_redeemable, lines 296-297, once price_for_content has returned content_price:
\* (balance >= price, price)
is_redeemable(led, content_price) ==
  [redeemable |-> current_balance(led) >= content_price, price |-> content_price]

\* An is_redeemable that reserves the price: it inserts a row for it.
ledger_after_is_redeemable_reserving(led, content_key, content_price) ==
  led \cup {new_row(0, caller_key("reserved"), -1 * content_price, 0, content_key, "")}

\* The ledger after is_redeemable, lines 295-297: it calls price_for_content and
\* current_balance, and neither writes to the ledger.
ledger_after_is_redeemable(led, content_key, content_price) == led

\* --------------------------------------------------------- Subsidy writes
\* A commit_transaction that assigns the reference before it validates the pair.
commit_transaction_assign_first(ledger_transaction, reference_id, reference_type) ==
  IF ~Falsy(reference_id) /\ Falsy(reference_type)
  THEN [raised |-> TRUE,
        obj |-> [ledger_transaction EXCEPT !.reference_id = reference_id]]
  ELSE [raised |-> FALSE,
        obj |-> [ledger_transaction EXCEPT !.reference_id = reference_id,
                                           !.reference_type = reference_type,
                                           !.state = COMMITTED]]

\* A commit_transaction that stores the reference and leaves the state as it is.
commit_transaction_keep_state(ledger_transaction, reference_id, reference_type) ==
  IF ~Falsy(reference_id) /\ Falsy(reference_type)
  THEN [raised |-> TRUE, obj |-> ledger_transaction]
  ELSE [raised |-> FALSE,
        obj |-> IF ~Falsy(reference_id)
                THEN [ledger_transaction EXCEPT !.reference_id = reference_id,
                                                !.reference_type = reference_type]
                ELSE ledger_transaction]

\* commit_transaction on the in-memory object: whether it raised ValueError, and
\* the object afterwards. When it does not raise, the caller-visible effect is
\* completed by save().
commit_transaction(ledger_transaction, reference_id, reference_type) ==
  IF ~Falsy(reference_id) /\ Falsy(reference_type)
  THEN [raised |-> TRUE, obj |-> ledger_transaction]
  ELSE [raised |-> FALSE,
        obj |-> IF ~Falsy(reference_id)
                THEN [ledger_transaction EXCEPT !.reference_id = reference_id,
                                                !.reference_type = reference_type,
                                                !.state = COMMITTED]
                ELSE [ledger_transaction EXCEPT !.state = COMMITTED]]

\* A rollback_transaction that deletes the row of the transaction.
rollback_transaction_delete(led, ledger_transaction) ==
  {r \in led : r.uuid /= ledger_transaction.uuid}

\* rollback_transaction: `pass`.
rollback_transaction(led, ledger_transaction) == led

\* An except clause that lets a timeout of enroll pass as a success.
enroll_raised_unless_timeout(outcome) == outcome = "error"

\* Whether the try block of _create_redemption left through its except clause
\* after enroll: every outcome of enroll but a return is an exception.
enroll_raised(outcome) == outcome /= "ok"

\* What redeem hands back.
Returned(t, created) == [kind |-> "returned", txn |-> t, created |-> created, error |-> ""]
Raised(e) == [kind |-> "raised", txn |-> NoTxn, created |-> FALSE, error |-> e]

\* An except clause that swallows the exception: redeem returns (None, False).
reraise_swallowed(exc) == Returned(NoTxn, FALSE)

\* Lines 276-278, `raise exc`: the exception the try block raised leaves
\* _create_redemption, and redeem, as it is.
reraise(exc) == Raised(exc)

\* One invocation made by _create_redemption: the operation, the uuid of the
\* transaction it was handed (or returned, for create_transaction), and the
\* exception it raised ("" when it returned).
Invocation(op, t, exc) == [op |-> op, uuid |-> t.uuid, raised |-> exc]

\* The idempotency key _create_redemption uses.
redemption_key(a, quantity) ==
  IF Falsy(a.idempotency_key)
  THEN create_idempotency_key_for_transaction(
         quantity, a.learner_id, a.content_key, a.subsidy_access_policy_uuid)
  ELSE caller_key(a.idempotency_key)

\* ------------------------------------------ the content-metadata endpoint
EDX_PRODUCT_SOURCE == "edX"
EXECUTIVE_EDUCATION_MODE == "paid-executive-education"
EDX_VERIFIED_COURSE_MODE == "verified"
HTTP_404_NOT_FOUND == 404

\* A dict is the set of its <<key, value>> pairs; d.get(k) is None for a key
\* the dict does not hold.
dict_get(d, k) ==
  IF \E e \in d : e[1] = k THEN (CHOOSE e \in d : e[1] = k)[2] ELSE None

\* What the payload of the oracle holds under 'product_source': no such key,
\* None, or a dict, which may be empty or lack a name.
ProductSources ==
  {[kind |-> "absent", dict |-> {}], [kind |-> "None", dict |-> {}]}
    \cup {[kind |-> "dict", dict |-> d] :
            d \in {{}, {<<"slug", "2u">>}, {<<"name", "2u">>, <<"slug", "2u">>}}}

\* The listed price, in dollars, of the entitlement of each mode (0: the payload
\* has no entitlement of the mode).
EntitlementPrices ==
  {[m \in {EDX_VERIFIED_COURSE_MODE, EXECUTIVE_EDUCATION_MODE} |->
      IF m = EDX_VERIFIED_COURSE_MODE THEN v ELSE e] : v \in {0, 794}, e \in {0, 2100}}

\* The content identifiers the endpoint is asked for.
ContentIdentifiers == {"course-1", "course-2"}

\* The enterprise_customer_uuid query parameter of a request (None: the request
\* has none).
Customers == {"customer-1", "customer-2"}

\* cache_page keys a response by the URL of the request: the content identifier
\* of the path and the query string.
Urls == ContentIdentifiers \X Customers

\* The payloads get_content_metadata_for_customer returns.
ContentData ==
  [uuid : {"uuid-1"}, key : ContentIdentifiers, product_source : ProductSources,
   entitlements : EntitlementPrices]

\* The statuses of the HTTPError get_content_metadata_for_customer raises.
ErrorStatuses == {400, 403, 404, 500, 503}

NoContentData == [uuid |-> "", key |-> "", product_source |-> [kind |-> "absent", dict |-> {}],
                  entitlements |-> [m \in {EDX_VERIFIED_COURSE_MODE, EXECUTIVE_EDUCATION_MODE} |-> 0]]

\* The answers of the oracle to one request: a payload, or an HTTPError.
OracleAnswers ==
  {[raised |-> FALSE, status |-> 200, content_data |-> cd] : cd \in ContentData}
    \cup {[raised |-> TRUE, status |-> st, content_data |-> NoContentData] :
            st \in ErrorStatuses}

NoOracleAnswer == [raised |-> FALSE, status |-> 0, content_data |-> NoContentData]

NoBody == [content_uuid |-> "", content_key |-> "", source |-> "", content_price |-> 0]
NoResponse == [status |-> 0, text |-> "", data |-> NoBody]
NoGet == [source |-> "", mode |-> "", content_price |-> 0, response |-> NoResponse]

\* Line 72, require_at_least_one_query_parameter('enterprise_customer_uuid'): the
\* response to a request without the parameter (NoResponse: the view runs).
require_at_least_one_query_parameter(enterprise_customer_uuid) ==
  IF enterprise_customer_uuid = None
  THEN [NoResponse EXCEPT !.status = 400, !.text = "missing query parameter"]
  ELSE NoResponse

\* content_data.get('product_source') is true in `if source_dict := ...`: the
\* key is there and holds a dict that is not empty.
product_source_given(content_data) ==
  content_data.product_source.kind = "dict" /\ content_data.product_source.dict /= {}

\* Lines 101-106, content_source.
content_source(content_data) ==
  IF product_source_given(content_data)
  THEN dict_get(content_data.product_source.dict, "name")
  ELSE EDX_PRODUCT_SOURCE

\* A mode selection that never looks at product_source.
source_mode_verified(content_data) == EDX_VERIFIED_COURSE_MODE

\* Lines 101-106, source_mode.
source_mode(content_data) ==
  IF product_source_given(content_data) THEN EXECUTIVE_EDUCATION_MODE
  ELSE EDX_VERIFIED_COURSE_MODE

\* catalog_client.price_for_content(content_data, source_mode): the price, in
\* cents, of the entitlement of the mode; 0 stands for the None of a payload
\* without one.
client_price_for_content(content_data, mode) ==
  content_data.entitlements[mode] * CENTS_PER_DOLLAR

\* A handler that answers every HTTPError of the oracle with 404.
error_response_404(status) ==
  [NoResponse EXCEPT !.status = HTTP_404_NOT_FOUND, !.text = "Content not found"]

\* Lines 119-122: the response to an HTTPError of the oracle.
error_response(status) ==
  IF status = 404
  THEN [NoResponse EXCEPT !.status = HTTP_404_NOT_FOUND, !.text = "Content not found"]
  ELSE [NoResponse EXCEPT !.status = status,
                          !.text = "Failed to fetch data from catalog service with exc"]

\* ContentMetadataViewSet.get, lines 95-123, for one answer of the oracle: the
\* source, the mode, the price and the response.
view_get(answer) ==
  IF answer.raised
  THEN [NoGet EXCEPT !.response = error_response(answer.status)]
  ELSE LET content_data == answer.content_data
           src == content_source(content_data)
           mode == source_mode(content_data)
           content_price == client_price_for_content(content_data, mode)
       IN [source |-> src, mode |-> mode, content_price |-> content_price,
           response |->
             IF content_price = 0
             THEN [NoResponse EXCEPT
                     !.status = 404,
                     !.text = "Could not find course price in content data payload"]
             ELSE [status |-> 200, text |-> "",
                   data |-> [content_uuid |-> content_data.uuid,
                             content_key |-> content_data.key,
                             source |-> src,
                             content_price |-> content_price]]]

\* ------------------------------------------------------------------- state
NoCommitCase == [obj |-> NoTxn, row |-> NoTxn, before |-> NoTxn, reference_id |-> None,
                 reference_type |-> None, outcome |-> "unused"]

NoReadCase == [op |-> "unused", lms_user_id |-> 0, content_key |-> "",
               raised |-> FALSE,
               redeemable |-> FALSE, price |-> 0, txn |-> NoTxn]

\* A price_for_content call: its content, whether it called the oracle, whether it
\* raised, the price it returned; and, as it was when the call probed the cache:
\* whether a lookup of the content had been stored since the cache was last cleared
\* (seen), whether that was among the LRU_MAXSIZE latest (recent), and the price
\* that lookup stored (earlier).
NoLookup == [key |-> 0, called |-> FALSE, raised |-> FALSE, price |-> 0,
             seen |-> FALSE, recent |-> FALSE, earlier |-> 0]

\* A price_for_content call in progress: "idle" (none), "ask" (the probe missed and
\* the catalog has not answered), "store" (the answer is there, not yet stored).
NoInFlight == [stage |-> "idle", about |-> NoLookup]

NoPriceCase == [op |-> "unused", cache |-> <<>>, oracle |-> 1, changes |-> 0,
                used |-> <<>>, highest |-> 1, returned |-> 0, last |-> NoLookup,
                inflight |-> [t \in 1..MaxOverlap |-> NoInFlight],
                listed |-> [dollars |-> 0, hundredths |-> 0]]

NoCreateCase == [op |-> "unused", calls |-> 0, idempotency_key |-> caller_key(""),
                 quantity |-> 0, txn |-> NoTxn, existed |-> FALSE]

\* One GET request: "idle" (not sent), "ask" (the page cache had no response and
\* the view waits for the catalog), "answered" (the catalog has answered), "done".
NoRequest == [stage |-> "idle", content_identifier |-> "", enterprise_customer_uuid |-> None,
              oracle |-> NoOracleAnswer, from_cache |-> FALSE, get |-> NoGet]

NoViewCase == [op |-> "unused", gets |-> [g \in 1..MaxGets |-> NoRequest],
               cached |-> [u \in Urls |-> NoResponse]]

Init ==
  /\ ledger = {}
  /\ pc = [p \in Calls |-> "idle"]
  /\ args = [p \in Calls |-> NoArgs]
  /\ txn = [p \in Calls |-> NoTxn]
  /\ ref = [p \in Calls |-> None]
  /\ result = [p \in Calls |-> NoResult]
  /\ enrollOutcome = [p \in Calls |-> ""]
  /\ endedBefore = [p \in Calls |-> {}]
  /\ oraclePrice = [c \in Contents |-> 1]
  /\ priceCache = [c \in Contents |-> 0]
  /\ priceChanges = 0
  /\ enrolled = {}
  /\ invoked = [p \in Calls |-> <<>>]
  /\ contentPrice = [p \in Calls |-> 0]
  /\ fetched = [p \in Calls |-> 0]
  /\ createCase = NoCreateCase
  /\ viewCase = NoViewCase
  /\ commitCase = NoCommitCase
  /\ readCase = NoReadCase
  /\ priceCase = NoPriceCase

\* ----------------------------------------------------------------- redeem
\* redeem, lines 209-210: the call begins and looks for an existing redemption.
RedeemBegin(p, a) ==
  /\ pc[p] = "idle"
  /\ IF p = 1 THEN TRUE ELSE pc[p - 1] /= "idle"
  /\ args' = [args EXCEPT ![p] = a]
  /\ endedBefore' = [endedBefore EXCEPT ![p] = {q \in Calls : pc[q] = "done"}]
  /\ Cardinality({q \in Calls : pc[q] \notin {"idle", "done"}}) < MaxInFlight
  /\ p = 1 => a.learner_id = 1 /\ a.subsidy_access_policy_uuid = "policy-a"
  /\ p > MaxFreshCalls => \E q \in 1..(p - 1) : a = args[q]
  /\ \E existing_transaction \in get_redemption(ledger, a.learner_id, a.content_key) :
        IF existing_transaction /= NoTxn
        THEN /\ result' = [result EXCEPT ![p] = Returned(existing_transaction, FALSE)]
             /\ pc' = [pc EXCEPT ![p] = "done"]
        ELSE /\ result' = result
             /\ pc' = [pc EXCEPT ![p] = "check"]
  /\ UNCHANGED <<ledger, txn, ref, enrollOutcome, oraclePrice,
                 priceCache, priceChanges, enrolled, commitCase,
                 readCase, priceCase, viewCase, invoked, contentPrice, fetched, createCase>>

\* Where a call is when its price_for_content call has returned: at the balance
\* read of is_redeemable (line 296), or at the key and create_transaction of
\* _create_redemption (lines 252-267).
after_lookup(at) == IF at = "check" THEN "balance" ELSE "create_txn"

\* price_for_content, line 143, called by is_redeemable (line 295) or by
\* _create_redemption (line 251): the probe of the lru_cache. A hit returns the
\* cached value; a miss goes on to ask the catalog.
PriceForContentProbe(p) ==
  /\ pc[p] \in {"check", "create"}
  /\ IF cache_hit(priceCache, args[p].content_key)
     THEN /\ fetched' = [fetched EXCEPT ![p] = priceCache[args[p].content_key]]
          /\ pc' = [pc EXCEPT ![p] = after_lookup(pc[p])]
     ELSE /\ fetched' = fetched
          /\ pc' = [pc EXCEPT ![p] = IF pc[p] = "check" THEN "check_ask"
                                     ELSE "create_ask"]
  /\ UNCHANGED <<ledger, args, txn, ref, result, enrollOutcome, endedBefore,
                 oraclePrice, priceCache, priceChanges, enrolled, commitCase,
                 readCase, priceCase, viewCase, invoked, contentPrice, createCase>>

\* price_for_content, lines 145-146: the catalog answers get_course_price with the
\* price it lists now, or with a 404; the HTTPError leaves price_for_content,
\* is_redeemable or _create_redemption (line 251 is before the try block), and
\* redeem uncaught.
GetCoursePrice(p) ==
  /\ pc[p] \in {"check_ask", "create_ask"}
  /\ IF get_course_price_raises(oraclePrice, args[p].content_key)
     THEN /\ pc' = [pc EXCEPT ![p] = "done"]
          /\ result' = [result EXCEPT ![p] = Raised("HTTPError")]
          /\ contentPrice' = [contentPrice EXCEPT ![p] = 0]
          /\ fetched' = fetched
     ELSE /\ pc' = [pc EXCEPT ![p] = IF pc[p] = "check_ask" THEN "check_store"
                                     ELSE "create_store"]
          /\ fetched' = [fetched EXCEPT
               ![p] = price_of_answer(oraclePrice, args[p].content_key)]
          /\ UNCHANGED <<result, contentPrice>>
  /\ UNCHANGED <<ledger, args, txn, ref, enrollOutcome, endedBefore,
                 oraclePrice, priceCache, priceChanges, enrolled, commitCase,
                 readCase, priceCase, viewCase, invoked, createCase>>

\* price_for_content, line 143: the lru_cache stores the value the call got and
\* returns it.
PriceForContentStore(p) ==
  /\ pc[p] \in {"check_store", "create_store"}
  /\ priceCache' = cache_after_store(priceCache, args[p].content_key, fetched[p])
  /\ pc' = [pc EXCEPT ![p] = after_lookup(IF pc[p] = "check_store" THEN "check"
                                          ELSE "create")]
  /\ UNCHANGED <<ledger, args, txn, ref, result, enrollOutcome, endedBefore,
                 oraclePrice, priceChanges, enrolled, commitCase,
                 readCase, priceCase, viewCase, invoked, contentPrice, fetched,
                 createCase>>

\* is_redeemable, lines 296-297, and redeem, lines 212-214: the balance is read and
\* compared with the price price_for_content returned; (None, False) when the
\* content is not redeemable.
RedeemCheck(p) ==
  /\ pc[p] = "balance"
  /\ LET r == is_redeemable(ledger, fetched[p])
     IN IF r.redeemable
        THEN /\ pc' = [pc EXCEPT ![p] = "create"]
             /\ result' = result
             /\ contentPrice' = [contentPrice EXCEPT ![p] = r.price]
        ELSE /\ pc' = [pc EXCEPT ![p] = "done"]
             /\ result' = [result EXCEPT ![p] = Returned(NoTxn, FALSE)]
             /\ contentPrice' = contentPrice
  /\ ledger' = ledger_after_is_redeemable(ledger, args[p].content_key, fetched[p])
  /\ fetched' = [fetched EXCEPT ![p] = 0]
  /\ UNCHANGED <<args, txn, ref, enrollOutcome, endedBefore,
                 oraclePrice, priceCache, priceChanges, enrolled, commitCase,
                 readCase, priceCase, viewCase, invoked, createCase>>

\* _create_redemption, lines 251-267, once price_for_content has returned: the
\* quantity, the key, and the ledger's get-or-create under that key.
CreateRedemption(p) ==
  /\ pc[p] = "create_txn"
  /\ LET a == args[p]
         quantity == -1 * fetched[p]
         idempotency_key == redemption_key(a, quantity)
         row == create_transaction(ledger, p, idempotency_key, quantity, a.learner_id,
                                   a.content_key, a.subsidy_access_policy_uuid)
     IN /\ ledger' = ledger \cup {row}
        /\ txn' = [txn EXCEPT ![p] = row]
        /\ invoked' = [invoked EXCEPT
             ![p] = Append(@, Invocation("create_transaction", row, ""))]
  /\ pc' = [pc EXCEPT ![p] = "enroll"]
  /\ contentPrice' = [contentPrice EXCEPT ![p] = 0]
  /\ fetched' = [fetched EXCEPT ![p] = 0]
  /\ UNCHANGED <<args, ref, result, enrollOutcome, endedBefore,
                 oraclePrice, priceCache, priceChanges, enrolled, commitCase,
                 readCase, priceCase, viewCase, createCase>>

\* _create_redemption, lines 269-270 and 276-278: enroll, and the except clause
\* (rollback, re-raise) when it raises.
Enroll(p) ==
  /\ pc[p] = "enroll"
  /\ \E outcome \in EnrollOutcomes, reference_id \in EnrollReturns :
       /\ outcome /= "ok" => reference_id = None
       /\ enrollOutcome' = [enrollOutcome EXCEPT ![p] = outcome]
       /\ enrolled' = IF outcome \in {"ok", "timeout"}
                      THEN enrolled \cup {<<args[p].learner_id, args[p].content_key>>}
                      ELSE enrolled
       /\ IF enroll_raised(outcome)
          THEN /\ ledger' = rollback_transaction(ledger, txn[p])
               /\ result' = [result EXCEPT ![p] = reraise(outcome)]
               /\ pc' = [pc EXCEPT ![p] = "done"]
               /\ ref' = ref
               /\ invoked' = [invoked EXCEPT
                    ![p] = @ \o <<Invocation("enroll", txn[p], outcome),
                                  Invocation("rollback_transaction", txn[p], "")>>]
          ELSE /\ ref' = [ref EXCEPT ![p] = reference_id]
               /\ pc' = [pc EXCEPT ![p] = "commit"]
               /\ invoked' = [invoked EXCEPT
                    ![p] = Append(@, Invocation("enroll", txn[p], ""))]
               /\ UNCHANGED <<ledger, result>>
  /\ UNCHANGED <<args, txn, endedBefore, oraclePrice, priceCache,
                 priceChanges, commitCase,
                 readCase, priceCase, viewCase, contentPrice, fetched, createCase>>

\* _create_redemption, lines 271-280, and redeem, lines 221-222: commit_transaction
\* with the enrollment's reference, its save(), and the return; the except clause
\* when the commit raises (ValueError, or the storage failing the save).
Commit(p) ==
  /\ pc[p] = "commit"
  /\ LET c == commit_transaction(txn[p], ref[p], OCM_ENROLLMENT_REFERENCE_TYPE)
     IN /\ txn' = [txn EXCEPT ![p] = c.obj]
        /\ IF c.raised
           THEN /\ ledger' = rollback_transaction(ledger, c.obj)
                /\ result' = [result EXCEPT ![p] = reraise("ValueError")]
                /\ invoked' = [invoked EXCEPT
                     ![p] = @ \o <<Invocation("commit_transaction", txn[p], "ValueError"),
                                   Invocation("rollback_transaction", c.obj, "")>>]
           ELSE \E saved \in BOOLEAN :
                  IF saved
                  THEN /\ ledger' = save(ledger, c.obj)
                       /\ result' = [result EXCEPT ![p] = Returned(c.obj, TRUE)]
                       /\ invoked' = [invoked EXCEPT
                            ![p] = Append(@, Invocation("commit_transaction", txn[p], ""))]
                  ELSE /\ ledger' = rollback_transaction(ledger, c.obj)
                       /\ result' = [result EXCEPT ![p] = reraise("save")]
                       /\ invoked' = [invoked EXCEPT
                            ![p] = @ \o <<Invocation("commit_transaction", txn[p], "save"),
                                          Invocation("rollback_transaction", c.obj, "")>>]
  /\ pc' = [pc EXCEPT ![p] = "done"]
  /\ ref' = [ref EXCEPT ![p] = None]
  /\ UNCHANGED <<args, enrollOutcome, endedBefore,
                 oraclePrice, priceCache, priceChanges, enrolled, commitCase,
                 readCase, priceCase, viewCase, contentPrice, fetched, createCase>>

\* ------------------------------------------------------------ environment
\* The oracle lists a new price for a content, or stops listing the content.
OracleChange(content_key, price) ==
  /\ priceChanges < MaxPriceChanges
  /\ price /= oraclePrice[content_key]
  /\ oraclePrice' = [oraclePrice EXCEPT ![content_key] = price]
  /\ priceChanges' = priceChanges + 1
  /\ UNCHANGED <<ledger, pc, args, txn, ref, result, enrollOutcome,
                 endedBefore, priceCache, enrolled, commitCase,
                 readCase, priceCase, viewCase, invoked, contentPrice, fetched, createCase>>

\* price_for_content.cache_clear(), or the lru_cache dropping the entry.
CacheClear(content_key) ==
  /\ priceCache[content_key] /= 0
  /\ priceCache' = [priceCache EXCEPT ![content_key] = 0]
  /\ UNCHANGED <<ledger, pc, args, txn, ref, result, enrollOutcome,
                 endedBefore, oraclePrice, priceChanges, enrolled, commitCase,
                 readCase, priceCase, viewCase, invoked, contentPrice, fetched, createCase>>

Next ==
  \/ \E p \in Calls, a \in RedeemArgs : RedeemBegin(p, a)
  \/ \E p \in Calls : PriceForContentProbe(p)
  \/ \E p \in Calls : GetCoursePrice(p)
  \/ \E p \in Calls : PriceForContentStore(p)
  \/ \E p \in Calls : RedeemCheck(p)
  \/ \E p \in Calls : CreateRedemption(p)
  \/ \E p \in Calls : Enroll(p)
  \/ \E p \in Calls : Commit(p)
  \/ \E c \in Contents, v \in ListedPrices \cup {NotListed} : OracleChange(c, v)
  \/ \E c \in Contents : CacheClear(c)

Spec == Init /\ [][Next]_vars

\* ------------------------------------------- redeem calls made one after the other
\* The calls as the tests make them: one redeem call at a time, and the oracle and
\* the cache touched only between two calls.
SeqRedeemBegin(p, a) ==
  /\ \A q \in Calls : pc[q] \in {"idle", "done"}
  /\ RedeemBegin(p, a)

SeqOracleChange(content_key, price) ==
  /\ \A q \in Calls : pc[q] \in {"idle", "done"}
  /\ OracleChange(content_key, price)

SeqCacheClear(content_key) ==
  /\ \A q \in Calls : pc[q] \in {"idle", "done"}
  /\ CacheClear(content_key)

NextSeq ==
  \/ \E p \in Calls, a \in RedeemArgs : SeqRedeemBegin(p, a)
  \/ \E p \in Calls : PriceForContentProbe(p)
  \/ \E p \in Calls : GetCoursePrice(p)
  \/ \E p \in Calls : PriceForContentStore(p)
  \/ \E p \in Calls : RedeemCheck(p)
  \/ \E p \in Calls : CreateRedemption(p)
  \/ \E p \in Calls : Enroll(p)
  \/ \E p \in Calls : Commit(p)
  \/ \E c \in Contents, v \in ListedPrices \cup {NotListed} : SeqOracleChange(c, v)
  \/ \E c \in Contents : SeqCacheClear(c)

SpecSeq == Init /\ [][NextSeq]_vars

\* ------------------- commit_transaction and create_transaction called directly
\* The transactions commit_transaction is handed: a row of the ledger in any state,
\* with or without a reference.
CommitObjects ==
  {[new_row(1, create_idempotency_key_for_transaction(-100, 1, "course-1", "policy-a"),
            -100, 1, "course-1", "policy-a")
      EXCEPT !.state = st, !.reference_id = rid,
             !.reference_type = IF rid = None THEN None ELSE OCM_ENROLLMENT_REFERENCE_TYPE] :
     st \in {CREATED, PENDING, COMMITTED, FAILED}, rid \in {None, "enr-0"}}

ReferenceIds == {None, "", "enr-1", "enr-2"}
ReferenceTypes == {None, "", OCM_ENROLLMENT_REFERENCE_TYPE}

InitCommit ==
  /\ ledger = {}
  /\ pc = [p \in Calls |-> "idle"]
  /\ args = [p \in Calls |-> NoArgs]
  /\ txn = [p \in Calls |-> NoTxn]
  /\ ref = [p \in Calls |-> None]
  /\ result = [p \in Calls |-> NoResult]
  /\ enrollOutcome = [p \in Calls |-> ""]
  /\ endedBefore = [p \in Calls |-> {}]
  /\ oraclePrice = [c \in Contents |-> 1]
  /\ priceCache = [c \in Contents |-> 0]
  /\ priceChanges = 0
  /\ enrolled = {}
  /\ invoked = [p \in Calls |-> <<>>]
  /\ contentPrice = [p \in Calls |-> 0]
  /\ fetched = [p \in Calls |-> 0]
  /\ createCase = [NoCreateCase EXCEPT !.op = "none"]
  /\ viewCase = NoViewCase
  /\ \E t \in CommitObjects, rid \in ReferenceIds, rt \in ReferenceTypes :
       commitCase = [obj |-> t, row |-> t, before |-> t, reference_id |-> rid,
                     reference_type |-> rt, outcome |-> "none"]
  /\ readCase = NoReadCase
  /\ priceCase = NoPriceCase

\* commit_transaction(ledger_transaction, reference_id, reference_type), lines 173-190,
\* on an object loaded from its row; save() may fail in the storage.
CommitCall ==
  /\ commitCase.outcome = "none"
  /\ LET c == commit_transaction(commitCase.obj, commitCase.reference_id,
                                 commitCase.reference_type)
     IN IF c.raised
        THEN commitCase' = [commitCase EXCEPT !.obj = c.obj, !.outcome = "ValueError"]
        ELSE \E saved \in BOOLEAN :
               commitCase' = [commitCase EXCEPT
                                !.obj = c.obj,
                                !.row = IF saved THEN c.obj ELSE @,
                                !.outcome = IF saved THEN "saved" ELSE "save-error"]
  /\ UNCHANGED redeemVars
  /\ UNCHANGED <<readCase, priceCase, viewCase, invoked, contentPrice, fetched, createCase>>

\* The keys and quantities create_transaction is called with directly.
CreateKeys == {caller_key("key-1"), caller_key("key-2")}
CreateQuantities == {-1 * v * CENTS_PER_DOLLAR : v \in ListedPrices}

\* create_transaction(idempotency_key, quantity, lms_user_id, content_key,
\* subsidy_access_policy_uuid), lines 151-171, called on the subsidy: the ledger's
\* get-or-create under the key. The uuid of a new row is fresh.
CreateTransactionCall(idempotency_key, quantity) ==
  /\ createCase.op \in {"none", "create_transaction"}
  /\ createCase.calls < MaxCreateCalls
  /\ LET row == create_transaction(ledger, createCase.calls + 1, idempotency_key,
                                   quantity, 1, "course-1", "policy-a")
     IN /\ ledger' = ledger \cup {row}
        /\ createCase' = [op |-> "create_transaction",
                          calls |-> createCase.calls + 1,
                          idempotency_key |-> idempotency_key,
                          quantity |-> quantity,
                          txn |-> row,
                          existed |-> existing_under_key(ledger, idempotency_key) /= {}]
  /\ UNCHANGED <<pc, args, txn, ref, result, enrollOutcome, endedBefore,
                 oraclePrice, priceCache, priceChanges, enrolled, commitCase,
                 readCase, priceCase, viewCase, invoked, contentPrice, fetched>>

NextCommit ==
  \/ CommitCall
  \/ \E k \in CreateKeys, q \in CreateQuantities : CreateTransactionCall(k, q)

SpecCommit == InitCommit /\ [][NextCommit]_vars

\* ------------------------------- is_redeemable and get_redemption called directly
ReadContents == {"course-1", "course-2"}
ReadStates == {CREATED, PENDING, COMMITTED, FAILED}

\* A row as a factory or an earlier redemption left it, under a key of its own.
ReadRow(uuid, state, lms_user_id, content_key, quantity) ==
  [new_row(uuid, <<"factory", uuid, 0, "", "", "">>, quantity, lms_user_id,
           content_key, "policy-a")
     EXCEPT !.state = state]

ReadRowChoices(u) ==
  {ReadRow(MaxCalls + u, st, l, c, -1 * v * CENTS_PER_DOLLAR) :
     st \in ReadStates, l \in Learners, c \in ReadContents, v \in ListedPrices}

\* The ledgers the read operations are called on: up to MaxRows rows, any states.
ReadLedgers ==
  {{f[u] : u \in present} :
     present \in SUBSET (1..MaxRows),
     f \in {g \in [1..MaxRows -> UNION {ReadRowChoices(u) : u \in 1..MaxRows}] :
              \A u \in 1..MaxRows : g[u].uuid = MaxCalls + u}}

InitRead ==
  /\ ledger \in ReadLedgers
  /\ pc = [p \in Calls |-> "idle"]
  /\ args = [p \in Calls |-> NoArgs]
  /\ txn = [p \in Calls |-> NoTxn]
  /\ ref = [p \in Calls |-> None]
  /\ result = [p \in Calls |-> NoResult]
  /\ enrollOutcome = [p \in Calls |-> ""]
  /\ endedBefore = [p \in Calls |-> {}]
  /\ oraclePrice \in [Contents -> ListedPrices \cup {NotListed}]
  /\ priceCache \in [Contents -> {0} \cup {v * CENTS_PER_DOLLAR : v \in ListedPrices}]
  /\ priceChanges = 0
  /\ enrolled = {}
  /\ invoked = [p \in Calls |-> <<>>]
  /\ contentPrice = [p \in Calls |-> 0]
  /\ fetched = [p \in Calls |-> 0]
  /\ createCase = NoCreateCase
  /\ viewCase = NoViewCase
  /\ commitCase = NoCommitCase
  /\ readCase = [NoReadCase EXCEPT !.op = "none"]
  /\ priceCase = NoPriceCase

\* is_redeemable(content_key), lines 282-297, called on the subsidy, runs in steps
\* like the is_redeemable of redeem, and the redeem calls run between them.
\* Line 295, price_for_content: the probe of the lru_cache.
IsRedeemableCall(content_key) ==
  /\ readCase.op = "none"
  /\ readCase' =
       IF cache_hit(priceCache, content_key)
       THEN [readCase EXCEPT !.op = "balance", !.content_key = content_key,
                             !.price = priceCache[content_key]]
       ELSE [readCase EXCEPT !.op = "ask", !.content_key = content_key]
  /\ UNCHANGED <<ledger, pc, args, txn, ref, result, enrollOutcome, endedBefore,
                 oraclePrice, priceCache, priceChanges, enrolled, commitCase,
                 priceCase, viewCase, invoked, contentPrice, fetched, createCase>>

\* Lines 145-146: the catalog answers; its HTTPError leaves is_redeemable uncaught.
IsRedeemableGetCoursePrice ==
  /\ readCase.op = "ask"
  /\ readCase' =
       IF get_course_price_raises(oraclePrice, readCase.content_key)
       THEN [readCase EXCEPT !.op = "is_redeemable", !.raised = TRUE]
       ELSE [readCase EXCEPT !.op = "store",
                             !.price = price_of_answer(oraclePrice,
                                                      readCase.content_key)]
  /\ UNCHANGED <<ledger, pc, args, txn, ref, result, enrollOutcome, endedBefore,
                 oraclePrice, priceCache, priceChanges, enrolled, commitCase,
                 priceCase, viewCase, invoked, contentPrice, fetched, createCase>>

\* Line 143: the lru_cache stores the value and price_for_content returns it.
IsRedeemableStore ==
  /\ readCase.op = "store"
  /\ priceCache' = cache_after_store(priceCache, readCase.content_key, readCase.price)
  /\ readCase' = [readCase EXCEPT !.op = "balance"]
  /\ UNCHANGED <<ledger, pc, args, txn, ref, result, enrollOutcome, endedBefore,
                 oraclePrice, priceChanges, enrolled, commitCase,
                 priceCase, viewCase, invoked, contentPrice, fetched, createCase>>

\* Lines 296-297: the balance is read and compared, and is_redeemable returns.
IsRedeemableReturn ==
  /\ readCase.op = "balance"
  /\ LET r == is_redeemable(ledger, readCase.price)
     IN readCase' = [readCase EXCEPT !.op = "is_redeemable",
                                     !.redeemable = r.redeemable,
                                     !.price = r.price]
  /\ ledger' = ledger_after_is_redeemable(ledger, readCase.content_key, readCase.price)
  /\ UNCHANGED <<pc, args, txn, ref, result, enrollOutcome, endedBefore,
                 oraclePrice, priceCache, priceChanges, enrolled, commitCase,
                 priceCase, viewCase, invoked, contentPrice, fetched, createCase>>

\* get_redemption(learner_id, content_key), lines 299-313, called on the subsidy.
GetRedemptionCall(learner_id, content_key) ==
  /\ readCase.op = "none"
  /\ \E t \in get_redemption(ledger, learner_id, content_key) :
       readCase' = [readCase EXCEPT !.op = "get_redemption", !.lms_user_id = learner_id,
                                    !.content_key = content_key, !.txn = t]
  /\ UNCHANGED <<ledger, pc, args, txn, ref, result, enrollOutcome, endedBefore,
                 oraclePrice, priceCache, priceChanges, enrolled, commitCase, priceCase, viewCase, invoked, contentPrice, fetched, createCase>>

NextRead ==
  \/ \E c \in Contents : IsRedeemableCall(c)
  \/ IsRedeemableGetCoursePrice
  \/ IsRedeemableStore
  \/ IsRedeemableReturn
  \/ \E p \in 1..MaxBeside, a \in RedeemArgs : RedeemBegin(p, a)
  \/ \E p \in Calls : PriceForContentProbe(p)
  \/ \E p \in Calls : GetCoursePrice(p)
  \/ \E p \in Calls : PriceForContentStore(p)
  \/ \E p \in Calls : RedeemCheck(p)
  \/ \E p \in Calls : CreateRedemption(p)
  \/ \E p \in Calls : Enroll(p)
  \/ \E p \in Calls : Commit(p)
  \/ \E c \in Contents, v \in ListedPrices \cup {NotListed} : OracleChange(c, v)
  \/ \E c \in Contents : CacheClear(c)
  \/ \E l \in Learners, c \in ReadContents : GetRedemptionCall(l, c)

SpecRead == InitRead /\ [][NextRead]_vars

\* --------------------------------------------- price_for_content called directly
\* The content keys price_for_content is called with, one more than the cache holds.
\* The oracle lists every content but the first at one dollar; the price of the
\* first one is priceCase.oracle, and changes.
PriceKeys == 1..(LRU_MAXSIZE + 1)

\* catalog_client.get_course_price(enterprise_customer_uuid, content_key)
get_course_price(oracle, content_key) == IF content_key = 1 THEN oracle ELSE 1

\* The lru_cache: its entries, least recently used first.
lru_hit_never(cache, content_key) == FALSE

lru_hit(cache, content_key) == \E i \in DOMAIN cache : cache[i].key = content_key

lru_get(cache, content_key) ==
  (CHOOSE e \in {cache[i] : i \in DOMAIN cache} : e.key = content_key).price

\* A hit makes the entry the most recently used one.
lru_touch(cache, content_key) ==
  LET others(e) == e.key /= content_key
  IN Append(SelectSeq(cache, others),
            [key |-> content_key, price |-> lru_get(cache, content_key)])

\* A miss stores the result, dropping the least recently used entry of a full cache.
lru_put(cache, content_key, price) ==
  Append(IF Len(cache) >= LRU_MAXSIZE THEN Tail(cache) ELSE cache,
         [key |-> content_key, price |-> price])

\* The order of last use of the contents looked up since the cache was last cleared
\* (kept beside the cache, to state what a call had to find).
used_after(used, content_key) ==
  LET others(k) == k /= content_key
  IN Append(SelectSeq(used, others), content_key)

used_before(used, content_key) == \E i \in DOMAIN used : used[i] = content_key

used_recently(used, content_key) ==
  \E i \in DOMAIN used : used[i] = content_key /\ i > Len(used) - LRU_MAXSIZE

\* The contents the next call may ask for: the first, the latest of the others, or
\* the next of the others.
NextKeys(highest) == {1, highest, highest + 1} \cap PriceKeys

\* Whether thread t may begin a call for the content now: a call begins beside a
\* call in progress only among the first MaxOverlapKeys contents.
MayBegin(t, content_key) ==
  (\E u \in 1..MaxOverlap : u /= t /\ priceCase.inflight[u].stage /= "idle")
    => (content_key <= MaxOverlapKeys /\ priceCase.highest <= MaxOverlapKeys)

InitPrice ==
  /\ ledger = {}
  /\ pc = [p \in Calls |-> "idle"]
  /\ args = [p \in Calls |-> NoArgs]
  /\ txn = [p \in Calls |-> NoTxn]
  /\ ref = [p \in Calls |-> None]
  /\ result = [p \in Calls |-> NoResult]
  /\ enrollOutcome = [p \in Calls |-> ""]
  /\ endedBefore = [p \in Calls |-> {}]
  /\ oraclePrice = [c \in Contents |-> 1]
  /\ priceCache = [c \in Contents |-> 0]
  /\ priceChanges = 0
  /\ enrolled = {}
  /\ invoked = [p \in Calls |-> <<>>]
  /\ contentPrice = [p \in Calls |-> 0]
  /\ fetched = [p \in Calls |-> 0]
  /\ createCase = NoCreateCase
  /\ viewCase = NoViewCase
  /\ commitCase = NoCommitCase
  /\ readCase = NoReadCase
  /\ \E v \in ListedPrices \cup {NotListed} :
       priceCase = [NoPriceCase EXCEPT !.op = "none", !.oracle = v]

\* price_for_content(content_key), lines 143-146, behind its lru_cache, called by
\* thread t: the probe of the cache. A hit returns the cached value and makes the
\* entry the most recently used; a miss goes on to ask the catalog.
PriceForContentCall(t, content_key) ==
  /\ priceCase.op \in {"none", "lookup", "cleared"}
  /\ priceCase.inflight[t].stage = "idle"
  /\ MayBegin(t, content_key)
  /\ LET cache == priceCase.cache
         about == [NoLookup EXCEPT
                     !.key = content_key,
                     !.seen = used_before(priceCase.used, content_key),
                     !.recent = used_recently(priceCase.used, content_key),
                     !.earlier = IF content_key = 1 THEN priceCase.returned
                                 ELSE CENTS_PER_DOLLAR]
     IN IF lru_hit(cache, content_key)
        THEN priceCase' = [priceCase EXCEPT
               !.op = "lookup",
               !.cache = lru_touch(cache, content_key),
               !.used = used_after(@, content_key),
               !.highest = IF content_key > @ THEN content_key ELSE @,
               !.last = [about EXCEPT !.price = lru_get(cache, content_key)]]
        ELSE priceCase' = [priceCase EXCEPT
               !.highest = IF content_key > @ THEN content_key ELSE @,
               !.inflight[t] = [stage |-> "ask", about |-> about]]
  /\ UNCHANGED <<ledger, pc, args, txn, ref, result, enrollOutcome, endedBefore,
                 oraclePrice, priceCache, priceChanges, enrolled, commitCase, readCase, viewCase, invoked, contentPrice, fetched, createCase>>

\* Lines 145-146: the catalog answers thread t's get_course_price; an HTTPError
\* leaves price_for_content, and the cache gets no entry.
PriceGetCoursePrice(t) ==
  /\ priceCase.inflight[t].stage = "ask"
  /\ LET about == priceCase.inflight[t].about
         price == get_course_price(priceCase.oracle, about.key)
     IN IF price = NotListed
        THEN priceCase' = [priceCase EXCEPT
               !.op = "lookup",
               !.inflight[t] = NoInFlight,
               !.last = [about EXCEPT !.called = TRUE, !.raised = TRUE]]
        ELSE priceCase' = [priceCase EXCEPT
               !.inflight[t] =
                  [stage |-> "store",
                   about |-> [about EXCEPT !.called = TRUE,
                                           !.price = price * CENTS_PER_DOLLAR]]]
  /\ UNCHANGED <<ledger, pc, args, txn, ref, result, enrollOutcome, endedBefore,
                 oraclePrice, priceCache, priceChanges, enrolled, commitCase, readCase, viewCase, invoked, contentPrice, fetched, createCase>>

\* Line 143: the lru_cache stores thread t's value and returns it; when another
\* call stored a value for the key during the wait, that entry is kept as it is.
PriceStore(t) ==
  /\ priceCase.inflight[t].stage = "store"
  /\ LET about == priceCase.inflight[t].about
         cache == priceCase.cache
     IN IF lru_hit(cache, about.key)
        THEN priceCase' = [priceCase EXCEPT
               !.op = "lookup",
               !.inflight[t] = NoInFlight,
               !.last = about]
        ELSE priceCase' = [priceCase EXCEPT
               !.op = "lookup",
               !.inflight[t] = NoInFlight,
               !.cache = lru_put(cache, about.key, about.price),
               !.used = used_after(@, about.key),
               !.returned = IF about.key = 1 THEN about.price ELSE @,
               !.last = about]
  /\ UNCHANGED <<ledger, pc, args, txn, ref, result, enrollOutcome, endedBefore,
                 oraclePrice, priceCache, priceChanges, enrolled, commitCase, readCase, viewCase, invoked, contentPrice, fetched, createCase>>

\* price_for_content.cache_clear()
PriceCacheClear ==
  /\ \/ priceCase.op = "lookup"
     \/ /\ priceCase.op = "none"
        /\ \E t \in 1..MaxOverlap : priceCase.inflight[t].stage /= "idle"
  /\ (\E t \in 1..MaxOverlap : priceCase.inflight[t].stage /= "idle")
       => priceCase.highest <= MaxOverlapKeys
  /\ priceCase' = [priceCase EXCEPT !.op = "cleared", !.cache = <<>>, !.used = <<>>,
                                    !.highest = 1, !.returned = 0]
  /\ UNCHANGED <<ledger, pc, args, txn, ref, result, enrollOutcome, endedBefore,
                 oraclePrice, priceCache, priceChanges, enrolled, commitCase, readCase, viewCase, invoked, contentPrice, fetched, createCase>>

\* The oracle lists another price for the first content, or stops listing it.
PriceOracleChange(price) ==
  /\ priceCase.op \in {"none", "lookup", "cleared"}
  /\ priceCase.changes < MaxPriceChanges
  /\ price /= priceCase.oracle
  /\ priceCase' = [priceCase EXCEPT !.oracle = price, !.changes = @ + 1]
  /\ UNCHANGED <<ledger, pc, args, txn, ref, result, enrollOutcome, endedBefore,
                 oraclePrice, priceCache, priceChanges, enrolled, commitCase, readCase, viewCase, invoked, contentPrice, fetched, createCase>>

NextPrice ==
  \/ \E t \in 1..MaxOverlap, k \in NextKeys(priceCase.highest) :
       PriceForContentCall(t, k)
  \/ \E t \in 1..MaxOverlap : PriceGetCoursePrice(t)
  \/ \E t \in 1..MaxOverlap : PriceStore(t)
  \/ PriceCacheClear
  \/ \E v \in ListedPrices \cup {NotListed} : PriceOracleChange(v)

SpecPrice == InitPrice /\ [][NextPrice]_vars

\* ------------------------------------ int(float(price) * CENTS_PER_DOLLAR)
\* A listed price is a decimal with two places, [dollars, hundredths]. A float is
\* a double: [limbs, exp] stands for the number whose digits of base 1024, most
\* significant first, are limbs (the first one is not bounded by the base), times
\* 2^exp; its mantissa has MANTISSA_BITS binary digits.
MANTISSA_BITS == 53

\* The listed prices the conversion is applied to: every price of two places up
\* to MaxListedDollars, and the prices of the catalog's test payloads.
ListedDecimals ==
  [dollars : 0..MaxListedDollars, hundredths : 0..99]
    \cup {[dollars |-> 149, hundredths |-> 0], [dollars |-> 599, hundredths |-> 49],
          [dollars |-> 794, hundredths |-> 0]}

\* The binary exponent of c hundredths: the e with 2^e <= c/100 < 2^(e+1).
log2_of_hundredths(c) ==
  CHOOSE e \in (0 - 7)..20 :
    IF e >= 0 THEN 100 * 2 ^ e <= c /\ c < 100 * 2 ^ (e + 1)
    ELSE 100 <= c * 2 ^ (0 - e) /\ c * 2 ^ (0 - e) < 200

\* What the long division by 100 leaves after i more digits of base 1024.
RECURSIVE rem_after(_, _)
rem_after(r, i) == IF i = 0 THEN r ELSE (rem_after(r, i - 1) * 1024) % 100

\* limbs plus unit in the last digit, where the last digit is a multiple of unit
\* and unit divides 1024: the carry runs up to the first digit that takes it.
add_unit(limbs, unit) ==
  LET n == Len(limbs)
  IN IF n = 1 \/ limbs[n] + unit < 1024 THEN [limbs EXCEPT ![n] = @ + unit]
     ELSE LET cand == {i \in 2..(n - 1) : limbs[i] /= 1023}
              z == IF cand = {} THEN 1 ELSE CHOOSE i \in cand : \A j \in cand : j <= i
          IN [j \in 1..n |-> IF j < z THEN limbs[j]
                             ELSE IF j = z THEN limbs[j] + 1 ELSE 0]

\* float(price): the double nearest to the decimal, ties to the even mantissa.
float_of_price(price) ==
  LET c == price.dollars * 100 + price.hundredths
  IN IF c = 0 THEN [limbs |-> <<0>>, exp |-> 0]
     ELSE LET s == MANTISSA_BITS - 1 - log2_of_hundredths(c)
              k == s \div 10
              n0 == c * 2 ^ (s % 10)
              r0 == n0 % 100
              limbs == [i \in 1..(k + 1) |->
                          IF i = 1 THEN n0 \div 100
                          ELSE (rem_after(r0, i - 2) * 1024) \div 100]
              r == rem_after(r0, k)
              up == 2 * r > 100 \/ (2 * r = 100 /\ limbs[k + 1] % 2 = 1)
          IN [limbs |-> IF up THEN add_unit(limbs, 1) ELSE limbs, exp |-> 0 - s]

\* The carry into digit i of limbs times n.
RECURSIVE carry_into(_, _, _)
carry_into(limbs, n, i) ==
  IF i = Len(limbs) THEN 0
  ELSE (limbs[i + 1] * n + carry_into(limbs, n, i + 1)) \div 1024

\* The digits of limbs times n.
times_exact(limbs, n) ==
  [i \in 1..Len(limbs) |->
     LET t == limbs[i] * n + carry_into(limbs, n, i)
     IN IF i = 1 THEN t ELSE t % 1024]

\* The number of binary digits of t.
bit_length(t) == CHOOSE b \in 0..30 : t < 2 ^ b /\ (b = 0 \/ 2 ^ (b - 1) <= t)

\* The double nearest to limbs * 2^exp, ties to the even mantissa (fewer than
\* ten binary digits are dropped).
round_to_double(limbs, exp) ==
  LET n == Len(limbs)
      d == bit_length(limbs[1]) + 10 * (n - 1) - MANTISSA_BITS
  IN IF d <= 0 THEN [limbs |-> limbs, exp |-> exp]
     ELSE LET last == limbs[n]
              low == last % 2 ^ d
              half == 2 ^ (d - 1)
              odd == (last \div 2 ^ d) % 2 = 1
              up == low > half \/ (low = half /\ odd)
              kept == [limbs EXCEPT ![n] = last - low]
          IN [limbs |-> IF up THEN add_unit(kept, 2 ^ d) ELSE kept, exp |-> exp]

\* x * n for a double x and an integer n below 1024: the double nearest to the
\* product.
float_times(x, n) == round_to_double(times_exact(x.limbs, n), x.exp)

\* The number of the first m digits.
RECURSIVE head_value(_, _)
head_value(limbs, m) ==
  IF m <= 0 THEN 0 ELSE head_value(limbs, m - 1) * 1024 + limbs[m]

\* int(x) for a double x that is not negative: its integer part.
int_of_float(x) ==
  IF x.exp >= 0 THEN head_value(x.limbs, Len(x.limbs)) * 2 ^ x.exp
  ELSE LET sh == 0 - x.exp
       IN head_value(x.limbs, Len(x.limbs) - sh \div 10) \div 2 ^ (sh % 10)

\* price_for_content, line 146, of the price get_course_price returned.
price_in_cents(price) == int_of_float(float_times(float_of_price(price), CENTS_PER_DOLLAR))

InitListed ==
  /\ ledger = {}
  /\ pc = [p \in Calls |-> "idle"]
  /\ args = [p \in Calls |-> NoArgs]
  /\ txn = [p \in Calls |-> NoTxn]
  /\ ref = [p \in Calls |-> None]
  /\ result = [p \in Calls |-> NoResult]
  /\ enrollOutcome = [p \in Calls |-> ""]
  /\ endedBefore = [p \in Calls |-> {}]
  /\ oraclePrice = [c \in Contents |-> 1]
  /\ priceCache = [c \in Contents |-> 0]
  /\ priceChanges = 0
  /\ enrolled = {}
  /\ invoked = [p \in Calls |-> <<>>]
  /\ contentPrice = [p \in Calls |-> 0]
  /\ fetched = [p \in Calls |-> 0]
  /\ createCase = NoCreateCase
  /\ viewCase = NoViewCase
  /\ commitCase = NoCommitCase
  /\ readCase = NoReadCase
  /\ \E d \in ListedDecimals :
       priceCase = [NoPriceCase EXCEPT !.op = "listed", !.listed = d]

\* price_for_content(content_key), lines 143-144, called by thread t for the content
\* the oracle lists at priceCase.listed: the probe of the lru_cache. A hit returns
\* the cached value; a miss goes on to ask the catalog.
ListedPriceCall(t) ==
  /\ priceCase.op \in {"listed", "converted"}
  /\ priceCase.inflight[t].stage = "idle"
  /\ LET cache == priceCase.cache
         about == [NoLookup EXCEPT !.key = 1]
     IN IF lru_hit(cache, 1)
        THEN priceCase' = [priceCase EXCEPT
               !.op = "converted",
               !.cache = lru_touch(cache, 1),
               !.returned = lru_get(cache, 1),
               !.last = [about EXCEPT !.price = lru_get(cache, 1)]]
        ELSE priceCase' = [priceCase EXCEPT
               !.inflight[t] = [stage |-> "ask", about |-> about]]
  /\ UNCHANGED <<ledger, pc, args, txn, ref, result, enrollOutcome, endedBefore,
                 oraclePrice, priceCache, priceChanges, enrolled, commitCase, readCase,
                 viewCase, invoked, contentPrice, fetched, createCase>>

\* Lines 145-146: the catalog answers thread t's get_course_price with the listed
\* price, and line 146 converts it.
ListedGetCoursePrice(t) ==
  /\ priceCase.op \in {"listed", "converted"}
  /\ priceCase.inflight[t].stage = "ask"
  /\ priceCase' = [priceCase EXCEPT
       !.inflight[t] =
          [stage |-> "store",
           about |-> [@.about EXCEPT !.called = TRUE,
                                     !.price = price_in_cents(priceCase.listed)]]]
  /\ UNCHANGED <<ledger, pc, args, txn, ref, result, enrollOutcome, endedBefore,
                 oraclePrice, priceCache, priceChanges, enrolled, commitCase, readCase,
                 viewCase, invoked, contentPrice, fetched, createCase>>

\* Line 143: the lru_cache stores thread t's value, unless another call stored one
\* during the wait, and price_for_content returns it.
ListedStore(t) ==
  /\ priceCase.op \in {"listed", "converted"}
  /\ priceCase.inflight[t].stage = "store"
  /\ LET about == priceCase.inflight[t].about
         cache == priceCase.cache
     IN priceCase' = [priceCase EXCEPT
          !.op = "converted",
          !.inflight[t] = NoInFlight,
          !.cache = IF lru_hit(cache, about.key) THEN cache
                    ELSE lru_put(cache, about.key, about.price),
          !.returned = about.price,
          !.last = about]
  /\ UNCHANGED <<ledger, pc, args, txn, ref, result, enrollOutcome, endedBefore,
                 oraclePrice, priceCache, priceChanges, enrolled, commitCase, readCase,
                 viewCase, invoked, contentPrice, fetched, createCase>>

\* price_for_content.cache_clear()
ListedCacheClear ==
  /\ priceCase.op \in {"listed", "converted"}
  /\ priceCase.cache /= <<>>
  /\ priceCase' = [priceCase EXCEPT !.cache = <<>>]
  /\ UNCHANGED <<ledger, pc, args, txn, ref, result, enrollOutcome, endedBefore,
                 oraclePrice, priceCache, priceChanges, enrolled, commitCase, readCase,
                 viewCase, invoked, contentPrice, fetched, createCase>>

NextListed ==
  \/ \E t \in 1..MaxOverlap : ListedPriceCall(t)
  \/ \E t \in 1..MaxOverlap : ListedGetCoursePrice(t)
  \/ \E t \in 1..MaxOverlap : ListedStore(t)
  \/ ListedCacheClear

SpecListed == InitListed /\ [][NextListed]_vars

\* -------------------------------------- GET content-metadata, behind cache_page
InitView ==
  /\ ledger = {}
  /\ pc = [p \in Calls |-> "idle"]
  /\ args = [p \in Calls |-> NoArgs]
  /\ txn = [p \in Calls |-> NoTxn]
  /\ ref = [p \in Calls |-> None]
  /\ result = [p \in Calls |-> NoResult]
  /\ enrollOutcome = [p \in Calls |-> ""]
  /\ endedBefore = [p \in Calls |-> {}]
  /\ oraclePrice = [c \in Contents |-> 1]
  /\ priceCache = [c \in Contents |-> 0]
  /\ priceChanges = 0
  /\ enrolled = {}
  /\ invoked = [p \in Calls |-> <<>>]
  /\ contentPrice = [p \in Calls |-> 0]
  /\ fetched = [p \in Calls |-> 0]
  /\ createCase = NoCreateCase
  /\ commitCase = NoCommitCase
  /\ readCase = NoReadCase
  /\ priceCase = NoPriceCase
  /\ viewCase = [NoViewCase EXCEPT !.op = "none"]

\* GET number g of the endpoint is sent, lines 71-72: cache_page answers with the
\* response it holds for the URL; a request without enterprise_customer_uuid is
\* answered 400; else the view runs and asks the catalog (line 97).
ViewGet(g, content_identifier, enterprise_customer_uuid) ==
  /\ viewCase.op /= "unused"
  /\ viewCase.gets[g].stage = "idle"
  /\ g > 1 => viewCase.gets[g - 1].stage /= "idle"
  /\ LET sent == [NoRequest EXCEPT
                    !.content_identifier = content_identifier,
                    !.enterprise_customer_uuid = enterprise_customer_uuid]
         refused == require_at_least_one_query_parameter(enterprise_customer_uuid)
     IN viewCase' = [viewCase EXCEPT
          !.op = "get",
          !.gets[g] =
             IF refused /= NoResponse
             THEN [sent EXCEPT !.stage = "done",
                               !.get = [NoGet EXCEPT !.response = refused]]
             ELSE IF viewCase.cached[<<content_identifier, enterprise_customer_uuid>>]
                       /= NoResponse
             THEN [sent EXCEPT
                     !.stage = "done", !.from_cache = TRUE,
                     !.get = [NoGet EXCEPT
                                !.response = viewCase.cached[<<content_identifier,
                                                               enterprise_customer_uuid>>]]]
             ELSE [sent EXCEPT !.stage = "ask"]]
  /\ UNCHANGED <<ledger, pc, args, txn, ref, result, enrollOutcome, endedBefore,
                 oraclePrice, priceCache, priceChanges, enrolled, commitCase, readCase,
                 priceCase, invoked, contentPrice, fetched, createCase>>

\* Lines 96-100: the catalog answers get_content_metadata_for_customer of GET g
\* with a payload, or with an HTTPError.
ViewCatalogAnswer(g, answer) ==
  /\ viewCase.gets[g].stage = "ask"
  /\ viewCase' = [viewCase EXCEPT !.gets[g].stage = "answered",
                                  !.gets[g].oracle = answer]
  /\ UNCHANGED <<ledger, pc, args, txn, ref, result, enrollOutcome, endedBefore,
                 oraclePrice, priceCache, priceChanges, enrolled, commitCase, readCase,
                 priceCase, invoked, contentPrice, fetched, createCase>>

\* Lines 101-123 and line 71: the view answers GET g from the catalog's answer, and
\* cache_page stores a 200 response under the URL, over the one it may hold.
ViewRespond(g) ==
  /\ viewCase.gets[g].stage = "answered"
  /\ LET r == viewCase.gets[g]
         got == view_get(r.oracle)
     IN viewCase' = [viewCase EXCEPT
          !.gets[g].stage = "done",
          !.gets[g].get = got,
          !.cached[<<r.content_identifier, r.enterprise_customer_uuid>>] =
             IF got.response.status = 200 THEN got.response ELSE @]
  /\ UNCHANGED <<ledger, pc, args, txn, ref, result, enrollOutcome, endedBefore,
                 oraclePrice, priceCache, priceChanges, enrolled, commitCase, readCase,
                 priceCase, invoked, contentPrice, fetched, createCase>>

\* cache_page(60): the minute of a cached response is over.
ViewCacheExpire(url) ==
  /\ viewCase.op /= "unused"
  /\ viewCase.cached[url] /= NoResponse
  /\ viewCase' = [viewCase EXCEPT !.cached[url] = NoResponse]
  /\ UNCHANGED <<ledger, pc, args, txn, ref, result, enrollOutcome, endedBefore,
                 oraclePrice, priceCache, priceChanges, enrolled, commitCase, readCase,
                 priceCase, invoked, contentPrice, fetched, createCase>>

NextView ==
  \/ \E g \in 1..MaxGets, c \in ContentIdentifiers, u \in Customers \cup {None} :
       ViewGet(g, c, u)
  \/ \E g \in 1..MaxGets, a \in OracleAnswers : ViewCatalogAnswer(g, a)
  \/ \E g \in 1..MaxGets : ViewRespond(g)
  \/ \E url \in Urls : ViewCacheExpire(url)

SpecView == InitView /\ [][NextView]_vars

\* ------------------------------------------------------------------ claims
Started == {p \in Calls : pc[p] /= "idle"}
Ended == {p \in Calls : pc[p] = "done"}
\* The calls that have been through the ledger's create_transaction.
Created(p) == txn[p] /= NoTxn
Quiescent == \A p \in Calls : pc[p] \in {"idle", "done"}

\* The committed transactions of one (subsidy, learner, content) triple.
CommittedFor(led, learner_id, content_key) ==
  {r \in led : /\ r.state = COMMITTED
               /\ r.lms_user_id = learner_id
               /\ r.content_key = content_key}

\* The call's enroll raised (it failed, or it timed out).
ProvisionerRaised(p) == enrollOutcome[p] \in {"error", "timeout"}

\* No other call worked on the transaction that call p worked on.
SoleUser(p) == \A q \in Calls \ {p} : txn[q].uuid /= txn[p].uuid

\* C1: as long as every redeem call made so far has the same arguments and no
\* caller-supplied idempotency key, no (learner, content) triple of the subsidy has
\* more than one committed transaction.
C1_UniqueCommittedIdenticalArgs ==
  ( /\ \A p, q \in Started : args[p] = args[q]
    /\ \A p \in Started : Falsy(args[p].idempotency_key) )
  => \A l \in Learners, c \in Contents : Cardinality(CommittedFor(ledger, l, c)) <= 1

\* C2: whatever the redeem calls made (any policies, any caller-supplied keys), no
\* (learner, content) triple of the subsidy has more than one committed transaction.
C2_UniqueCommitted ==
  \A l \in Learners, c \in Contents : Cardinality(CommittedFor(ledger, l, c)) <= 1

\* C3: when a call q of redeem began after a call p with the same arguments had
\* returned a transaction, q returns that same transaction with created = False.
C3_SecondCallIdempotent ==
  \A p, q \in Ended :
    ( /\ p \in endedBefore[q]
      /\ args[p] = args[q]
      /\ result[p].kind = "returned"
      /\ result[p].txn /= NoTxn )
    => /\ result[q].kind = "returned"
       /\ result[q].created = FALSE
       /\ result[q].txn.uuid = result[p].txn.uuid
       /\ result[q].txn.state = COMMITTED

\* C4: whenever no redeem call is in progress, a learner has been given access to a
\* content exactly when a committed transaction exists for that learner and content.
C4_BothOrNeither ==
  Quiescent =>
    \A l \in Learners, c \in Contents :
      (<<l, c>> \in enrolled) <=> (CommittedFor(ledger, l, c) /= {})

\* C5: a call whose enroll raised has ended by raising without going through the
\* commit, and its transaction is committed in the ledger only if another call,
\* whose own enroll returned, worked on the same transaction and committed it.
C5_NoCommitWhenEnrollRaised ==
  \A p \in Calls :
    ProvisionerRaised(p) =>
      /\ pc[p] = "done"
      /\ result[p].kind = "raised"
      /\ \A r \in ledger :
           (r.uuid = txn[p].uuid /\ r.state = COMMITTED) =>
             \E q \in Calls \ {p} : /\ txn[q].uuid = r.uuid
                                    /\ enrollOutcome[q] = "ok"
                                    /\ pc[q] = "done"

C5_Witness ==
  \E p \in Calls :
    /\ ProvisionerRaised(p)
    /\ SoleUser(p)
    /\ \E r \in ledger : r.uuid = txn[p].uuid /\ r.state = CREATED

\* C6: after a call of redeem ended by raising (its enroll or its commit raised), the
\* ledger holds no uncommitted row of the transaction the call had created.
C6_RollbackRemovesPendingRow ==
  \A p \in Ended :
    result[p].kind = "raised" =>
      ~ \E r \in ledger : r.uuid = txn[p].uuid /\ r.state /= COMMITTED

\* C7: a redeem call p that began after a call q with the same arguments had failed
\* in its enroll is not blocked by the failed attempt: the transaction p gets from
\* create_transaction is a new one, inserted by p itself and pending (state
\* created) until p's enroll has answered, not the row q worked on; p is not
\* answered with q's uncommitted row as an existing redemption; and if p's own
\* enroll returned and p returned, it returned a committed transaction, stored as
\* committed, with created = True.
C7_RetryAfterFailedEnroll ==
  \A p \in Calls, q \in Ended :
    ( /\ q \in endedBefore[p]
      /\ args[p] = args[q]
      /\ ProvisionerRaised(q) )
    => /\ Created(p) => /\ txn[p].uuid = p
                        /\ txn[p].uuid /= txn[q].uuid
       /\ pc[p] = "enroll"
            => \E r \in ledger : r.uuid = p /\ r.state = CREATED
       /\ (pc[p] = "done" /\ result[p].kind = "returned" /\ result[p].txn /= NoTxn
             /\ ~result[p].created)
            => result[p].txn.state = COMMITTED
       /\ (pc[p] = "done" /\ result[p].kind = "returned" /\ enrollOutcome[p] = "ok")
            => /\ result[p].created
               /\ result[p].txn.state = COMMITTED
               /\ \E r \in ledger : r.uuid = result[p].txn.uuid /\ r.state = COMMITTED

\* What holds of the retry p of a call q that failed in its enroll: the row q left
\* does not stop it. It is never answered with q's uncommitted row as an existing
\* redemption, and when its enroll returned and it returned, it returned a
\* committed transaction, stored as committed, with created = True.
RetryNotStopped ==
  \A p, q \in Ended :
    ( /\ q \in endedBefore[p]
      /\ args[p] = args[q]
      /\ ProvisionerRaised(q) )
    => /\ (result[p].kind = "returned" /\ result[p].txn /= NoTxn /\ ~result[p].created)
            => result[p].txn.state = COMMITTED
       /\ (result[p].kind = "returned" /\ enrollOutcome[p] = "ok")
            => /\ result[p].created
               /\ result[p].txn.state = COMMITTED
               /\ \E r \in ledger : r.uuid = result[p].txn.uuid /\ r.state = COMMITTED

\* C8: of the redeem calls with identical arguments that return the same
\* transaction, at most one returns it with created = True.
C8_OneCreator ==
  \A p, q \in Ended :
    ( /\ p /= q
      /\ args[p] = args[q]
      /\ result[p].kind = "returned" /\ result[q].kind = "returned"
      /\ result[p].txn /= NoTxn
      /\ result[p].txn.uuid = result[q].txn.uuid )
    => ~(result[p].created /\ result[q].created)

\* C9: a call reaches the commit only after its enroll returned, and every committed
\* transaction of the ledger was worked on by a call whose enroll returned and which
\* has gone through its commit.
C9_CommitOnlyAfterEnroll ==
  /\ \A p \in Calls : pc[p] = "commit" => enrollOutcome[p] = "ok"
  /\ \A r \in ledger :
       r.state = COMMITTED =>
         \E p \in Calls : /\ txn[p].uuid = r.uuid
                          /\ enrollOutcome[p] = "ok"
                          /\ pc[p] = "done"

C9_Witness ==
  \E r \in ledger, q \in Calls :
    /\ r.state = COMMITTED
    /\ txn[q].uuid = r.uuid
    /\ enrollOutcome[q] = "timeout"

\* C10: commit_transaction called with a reference_id and no reference_type raises
\* ValueError, and neither the object nor its stored row has changed.
C10_CommitWithoutTypeRaises ==
  ( /\ commitCase.outcome \notin {"none", "unused"}
    /\ ~Falsy(commitCase.reference_id)
    /\ Falsy(commitCase.reference_type) )
  => /\ commitCase.outcome = "ValueError"
     /\ commitCase.obj = commitCase.before
     /\ commitCase.row = commitCase.before

C10_Witness ==
  /\ commitCase.outcome = "ValueError"
  /\ commitCase.reference_id = "enr-1"
  /\ commitCase.reference_type = None
  /\ commitCase.before.state = CREATED

\* C11: every committed transaction of the ledger carries the provisioner's
\* reference: its reference_id and its reference_type are set.
C11_CommittedCarriesReference ==
  \A r \in ledger :
    r.state = COMMITTED => ~Falsy(r.reference_id) /\ ~Falsy(r.reference_type)

\* C12: is_redeemable(content_key) returns (balance >= price, price): the boolean is
\* true exactly when the balance, as the call reads it, is at least the price, and
\* the second element is the price price_for_content returned (the cached value, or
\* the catalog's answer) whether the boolean is true or false.
C12_IsRedeemableResult ==
  [][/\ (readCase.op = "none" /\ readCase'.op = "balance")
          => readCase'.price = priceCache[readCase'.content_key]
     /\ (readCase.op = "ask" /\ readCase'.op = "store")
          => readCase'.price = oraclePrice[readCase.content_key] * CENTS_PER_DOLLAR
     /\ (readCase.op = "balance" /\ readCase'.op = "is_redeemable")
          => /\ readCase'.price = readCase.price
             /\ readCase'.redeemable <=> (current_balance(ledger) >= readCase.price)]_vars

C12_Witness ==
  /\ readCase.op = "is_redeemable"
  /\ ~readCase.raised
  /\ readCase.redeemable
  /\ readCase.price = current_balance(ledger)
  /\ \E r \in ledger : r.state = COMMITTED
  /\ \E r \in ledger : r.state /= COMMITTED

\* C13: get_redemption(learner_id, content_key) returns only a transaction of the
\* ledger whose learner and content are the arguments and whose state is committed,
\* and returns None when no such transaction exists (the matching transactions are
\* created, pending or failed).
C13_GetRedemptionOnlyCommitted ==
  readCase.op = "get_redemption" =>
    /\ readCase.txn /= NoTxn =>
         /\ readCase.txn \in ledger
         /\ readCase.txn.lms_user_id = readCase.lms_user_id
         /\ readCase.txn.content_key = readCase.content_key
         /\ readCase.txn.state = COMMITTED
    /\ (~ \E r \in ledger : /\ r.lms_user_id = readCase.lms_user_id
                            /\ r.content_key = readCase.content_key
                            /\ r.state = COMMITTED)
         => readCase.txn = NoTxn

C13_Witness ==
  /\ readCase.op = "get_redemption"
  /\ readCase.txn = NoTxn
  /\ \E r \in ledger : /\ r.lms_user_id = readCase.lms_user_id
                       /\ r.content_key = readCase.content_key
                       /\ r.state \in {CREATED, PENDING, FAILED}
  /\ \E r \in ledger : /\ r.lms_user_id = readCase.lms_user_id
                       /\ r.content_key /= readCase.content_key
                       /\ r.state = COMMITTED

\* C14: when a call that found no committed redemption finds the balance below the
\* price, it returns (None, False) and leaves the ledger as it was: it has created
\* no transaction and has not called the provisioner.
C14_NotRedeemableNoEffect ==
  [][\A p \in Calls :
       ( /\ pc[p] = "balance"
         /\ pc'[p] /= "balance"
         /\ current_balance(ledger) < fetched[p] )
       => /\ pc'[p] = "done"
          /\ result'[p] = Returned(NoTxn, FALSE)
          /\ ledger' = ledger
          /\ enrolled' = enrolled
          /\ enrollOutcome'[p] = ""
          /\ txn'[p] = NoTxn]_vars

C14_Witness ==
  \E p \in Ended :
    /\ result[p] = Returned(NoTxn, FALSE)
    /\ CommittedFor(ledger, args[p].learner_id, args[p].content_key) = {}
    /\ cache_hit(priceCache, args[p].content_key)
    /\ current_balance(ledger) < priceCache[args[p].content_key]
    /\ enrollOutcome[p] = ""
    /\ txn[p] = NoTxn
    /\ \A r \in ledger : r.uuid /= p

\* C15: a call of redeem made when a committed redemption exists for the learner and
\* content returns one with created = False and changes nothing: the ledger and the
\* balance are as before, and neither price_for_content nor enroll is called.
C15_ExistingRedemptionReturned ==
  [][\A p \in Calls :
       ( /\ pc[p] = "idle"
         /\ pc'[p] /= "idle"
         /\ CommittedFor(ledger, args'[p].learner_id, args'[p].content_key) /= {} )
       => /\ pc'[p] = "done"
          /\ result'[p].kind = "returned"
          /\ ~result'[p].created
          /\ result'[p].txn
               \in CommittedFor(ledger, args'[p].learner_id, args'[p].content_key)
          /\ ledger' = ledger
          /\ current_balance(ledger') = current_balance(ledger)
          /\ priceCache' = priceCache
          /\ enrolled' = enrolled
          /\ enrollOutcome'[p] = ""
          /\ txn'[p] = NoTxn]_vars

C15_Witness ==
  \E p \in Ended :
    /\ result[p].kind = "returned"
    /\ ~result[p].created
    /\ result[p].txn \in CommittedFor(ledger, args[p].learner_id, args[p].content_key)
    /\ priceCache[args[p].content_key] = 0
    /\ enrollOutcome[p] = ""
    /\ txn[p] = NoTxn

\* C16: with redeem calls made one at a time: a call made when no committed
\* transaction exists for the learner and content, whose balance check passed, whose
\* enroll returned and whose commit was stored, returns (transaction, True) with the
\* transaction committed and of quantity -price, and the balance after the call is
\* the balance before it minus the price.
C16_RedeemDebitsPrice ==
  [][\A p \in Calls :
       ( /\ pc[p] = "commit"
         /\ pc'[p] = "done"
         /\ result'[p].kind = "returned"
         /\ CommittedFor(ledger, args[p].learner_id, args[p].content_key) = {} )
       => LET price == priceCache[args[p].content_key]
          IN /\ result'[p].created
             /\ result'[p].txn.state = COMMITTED
             /\ result'[p].txn.quantity = -1 * price
             /\ result'[p].txn \in ledger'
             /\ current_balance(ledger) >= price
             /\ current_balance(ledger') = current_balance(ledger) - price]_vars

\* The same on a fresh triple: the call inserted its transaction itself, and the
\* ledger held no other transaction of the learner and content.
HappyPathFreshTriple ==
  [][\A p \in Calls :
       ( /\ pc[p] = "commit"
         /\ pc'[p] = "done"
         /\ result'[p].kind = "returned"
         /\ txn[p].uuid = p
         /\ transactions_for_learner_and_content(
              ledger, args[p].learner_id, args[p].content_key) = {txn[p]} )
       => LET price == priceCache[args[p].content_key]
          IN /\ result'[p].created
             /\ result'[p].txn.state = COMMITTED
             /\ result'[p].txn.quantity = -1 * price
             /\ result'[p].txn \in ledger'
             /\ current_balance(ledger) >= price
             /\ current_balance(ledger') = current_balance(ledger) - price]_vars

\* The quantity that the transaction of uuid u contributes once committed.
CommittedQuantity(led, u) ==
  IF \E r \in led : r.uuid = u /\ r.state = COMMITTED
  THEN (CHOOSE r \in led : r.uuid = u /\ r.state = COMMITTED).quantity
  ELSE 0

RECURSIVE CommittedQuantityUpTo(_, _)
CommittedQuantityUpTo(led, n) ==
  IF n = 0 THEN 0 ELSE CommittedQuantity(led, n) + CommittedQuantityUpTo(led, n - 1)

\* The row of uuid u is stored as committed.
StoredCommitted(led, u) == \E r \in led : r.uuid = u /\ r.state = COMMITTED

\* What the steps of redeem that write to the ledger do to current_balance():
\* create_transaction (the row is inserted, or found, in whatever state it has)
\* and the rollback after a failed enroll or commit leave it as it was; a commit
\* that is stored moves it by the quantity of the transaction, once, when the row
\* was not committed before; and no other step moves it.
BalanceMovesOnCommitOnly ==
  /\ \A p \in Calls :
       /\ (pc[p] = "create_txn" /\ pc'[p] = "enroll")
            => current_balance(ledger') = current_balance(ledger)
       /\ (pc[p] = "enroll" /\ pc'[p] = "done")
            => current_balance(ledger') = current_balance(ledger)
       /\ (pc[p] = "commit" /\ pc'[p] = "done")
            => current_balance(ledger') =
                 current_balance(ledger)
                   + (IF result'[p].kind = "returned"
                         /\ ~StoredCommitted(ledger, txn[p].uuid)
                      THEN txn[p].quantity ELSE 0)
  /\ current_balance(ledger') /= current_balance(ledger)
       => \E p \in Calls : /\ pc[p] = "commit" /\ pc'[p] = "done"
                            /\ result'[p].kind = "returned"
                            /\ StoredCommitted(ledger', txn[p].uuid)

C18_BalanceNonNegative == current_balance(ledger) >= 0

\* C19: a redeem call that failed in the price lookup (it raised before it created a
\* transaction or called enroll) raised ContentNotFoundForCustomerException, and
\* the ledger holds no transaction of that call.
C19_NotFoundIsContentNotFound ==
  \A p \in Ended :
    (result[p].kind = "raised" /\ enrollOutcome[p] = "" /\ txn[p] = NoTxn) =>
      /\ result[p].error = "ContentNotFoundForCustomerException"
      /\ \A r \in ledger : r.uuid /= p

\* C20 as stated: a call of price_for_content for a content looked up successfully
\* since the cache was last cleared returns the price of that lookup and does not
\* call the oracle; any other call (a first one, or the first after cache_clear)
\* calls the oracle.
C20_CachedUntilCleared ==
  priceCase.op = "lookup" =>
    /\ priceCase.last.seen => /\ ~priceCase.last.called
                              /\ priceCase.last.price = priceCase.last.earlier
    /\ ~priceCase.last.seen => priceCase.last.called

\* C20, amended: the same for a content that is among the LRU_MAXSIZE contents most
\* recently looked up since the cache was last cleared, and a call that begins after
\* the lookup stored its price; a content looked up longer ago has lost its entry,
\* and its next call asks the oracle again, as does a call that began while the
\* first lookup of the content was still waiting for the oracle.
C20_CachedUntilClearedOrEvicted ==
  priceCase.op = "lookup" =>
    /\ priceCase.last.recent => /\ ~priceCase.last.called
                                /\ ~priceCase.last.raised
                                /\ priceCase.last.price = priceCase.last.earlier
    /\ ~priceCase.last.recent => priceCase.last.called

C20_Witness ==
  /\ priceCase.op = "lookup"
  /\ priceCase.last.key = 1
  /\ priceCase.last.recent
  /\ ~priceCase.last.called
  /\ priceCase.oracle \in ListedPrices
  /\ priceCase.last.price /= priceCase.oracle * CENTS_PER_DOLLAR
  /\ Len(priceCase.cache) = LRU_MAXSIZE

\* C21: the price in minor units is the listed decimal price times 100: for every
\* listed price of at most two decimal places price_for_content returns exactly
\* dollars * 100 + hundredths.
C21_ExactCents ==
  priceCase.op = "converted" =>
    priceCase.returned =
      priceCase.listed.dollars * CENTS_PER_DOLLAR + priceCase.listed.hundredths

\* The prices of the catalog's test payloads convert exactly.
C21_TestPayloadsExact ==
  (priceCase.op = "converted" /\ priceCase.listed.dollars \in {149, 599, 794}) =>
    priceCase.returned =
      priceCase.listed.dollars * CENTS_PER_DOLLAR + priceCase.listed.hundredths

\* C22: the mode and the source come from product_source: a payload with a
\* non-empty product_source is priced in the paid-executive-education mode and its
\* source is the product_source's name; a payload whose product_source is null or
\* absent is priced in the verified mode and its source is "edX". A 200 response
\* carries that source.
C22_ModeAndSourceFromProductSource ==
  \A n \in 1..MaxGets :
    LET q == viewCase.gets[n]
    IN (q.stage = "done" /\ ~q.from_cache /\ q.oracle /= NoOracleAnswer
          /\ ~q.oracle.raised) =>
         LET cd == q.oracle.content_data
             ps == cd.product_source
             g == q.get
         IN /\ (ps.kind = "dict" /\ ps.dict /= {}) =>
                  /\ g.mode = "paid-executive-education"
                  /\ g.source = dict_get(ps.dict, "name")
            /\ ps.kind \in {"absent", "None"} =>
                  /\ g.mode = "verified"
                  /\ g.source = "edX"
            /\ g.response.status = 200 => g.response.data.source = g.source

\* A payload of the source "2u" with entitlements of both modes was priced in the
\* executive-education mode and answered with the source "2u".
C22_Witness ==
  \E n \in 1..MaxGets :
    LET q == viewCase.gets[n]
    IN /\ q.stage = "done"
       /\ ~q.from_cache
       /\ q.oracle /= NoOracleAnswer
       /\ ~q.oracle.raised
       /\ q.oracle.content_data.product_source.dict = {<<"name", "2u">>, <<"slug", "2u">>}
       /\ q.oracle.content_data.entitlements["verified"] = 794
       /\ q.get.mode = "paid-executive-education"
       /\ q.get.response.status = 200
       /\ q.get.response.data.source = "2u"

\* C23: the endpoint answers 404 when the oracle answered 404 or when no price
\* was found for the resolved mode; any other HTTP error of the oracle is
\* answered with that error's own status code; a 200 response, carrying
\* content_uuid, content_key, source and content_price, is given only when a
\* price was found.
C23_EndpointStatuses ==
  \A n \in 1..MaxGets :
    LET q == viewCase.gets[n]
        a == q.oracle
        g == q.get
        r == g.response
    IN q.stage = "done" =>
         /\ (~q.from_cache /\ a /= NoOracleAnswer) =>
               /\ (a.raised /\ a.status = 404) => r.status = 404
               /\ (~a.raised /\ g.content_price = 0) => r.status = 404
               /\ (a.raised /\ a.status /= 404) => r.status = a.status
         /\ (~q.from_cache /\ r.status = 200) =>
               /\ a /= NoOracleAnswer
               /\ ~a.raised
               /\ g.content_price /= 0
               /\ r.data = [content_uuid |-> a.content_data.uuid,
                            content_key |-> a.content_data.key,
                            source |-> g.source,
                            content_price |-> g.content_price]
         /\ q.from_cache =>
               /\ r.status = 200
               /\ r.data.content_price /= 0

\* The oracle failed with 503 and the endpoint answered 503, and the view answered
\* another GET of the same URL with 200.
C23_Witness ==
  \E n, m \in 1..MaxGets :
    LET q == viewCase.gets[n]
        o == viewCase.gets[m]
    IN /\ q.stage = "done"
       /\ ~q.from_cache
       /\ q.oracle.raised
       /\ q.oracle.status = 503
       /\ q.get.response.status = 503
       /\ o.stage = "done"
       /\ ~o.from_cache
       /\ o.content_identifier = q.content_identifier
       /\ o.enterprise_customer_uuid = q.enterprise_customer_uuid
       /\ o.get.response.status = 200

\* C24: COMMITTED is terminal: commit_transaction on a transaction that is
\* already committed changes neither its state nor its reference id and type.
C24_CommittedIsTerminal ==
  (commitCase.outcome \notin {"none", "unused"} /\ commitCase.before.state = COMMITTED)
    => commitCase.row = commitCase.before

\* No step of redeem changes a committed row of the ledger.
CommittedRowsKept ==
  [][\A r \in ledger : r.state = COMMITTED => r \in ledger']_vars

\* C25: the idempotency key of a call is the key the caller supplied when one is
\* given, and else the key derived from (quantity, learner id, content key, policy
\* id); two redeem calls with identical arguments use the same key, and therefore
\* the same row; and the ledger holds at most one transaction per idempotency key.
C25_IdempotencyKey ==
  /\ \A p \in Calls :
       Created(p) =>
         txn[p].idempotency_key =
           IF Falsy(args[p].idempotency_key)
           THEN create_idempotency_key_for_transaction(
                  txn[p].quantity, args[p].learner_id, args[p].content_key,
                  args[p].subsidy_access_policy_uuid)
           ELSE caller_key(args[p].idempotency_key)
  /\ \A p, q \in Calls :
       (Created(p) /\ Created(q) /\ args[p] = args[q])
         => /\ txn[p].idempotency_key = txn[q].idempotency_key
            /\ txn[p].uuid = txn[q].uuid
  /\ \A r1, r2 \in ledger : r1.idempotency_key = r2.idempotency_key => r1 = r2

\* What holds of the keys: the choice between the caller's key and the derived
\* one; one key and one row for two calls with identical arguments that computed
\* the same quantity; and at most one row per key.
IdempotencyKeyAtOnePrice ==
  /\ \A p \in Calls :
       Created(p) => txn[p].idempotency_key = redemption_key(args[p], txn[p].quantity)
  /\ \A p, q \in Calls :
       (Created(p) /\ Created(q) /\ args[p] = args[q]
          /\ txn[p].quantity = txn[q].quantity)
         => /\ txn[p].idempotency_key = txn[q].idempotency_key
            /\ txn[p].uuid = txn[q].uuid
  /\ \A r1, r2 \in ledger : r1.idempotency_key = r2.idempotency_key => r1 = r2

\* C26: when enroll or commit_transaction raises an error E inside redeem,
\* rollback_transaction is invoked on the call's transaction right after, before
\* the call ends, and the call ends by raising E itself.
C26_RollbackThenReraise ==
  \A p \in Calls :
    \A i \in 1..Len(invoked[p]) :
      (invoked[p][i].op \in {"enroll", "commit_transaction"} /\ invoked[p][i].raised /= "")
        => /\ Len(invoked[p]) = i + 1
           /\ invoked[p][i + 1].op = "rollback_transaction"
           /\ invoked[p][i + 1].uuid = invoked[p][1].uuid
           /\ invoked[p][1].op = "create_transaction"
           /\ pc[p] = "done"
           /\ result[p] = Raised(invoked[p][i].raised)

\* A call whose commit failed in the storage rolled back and raised that failure.
C26_Witness ==
  /\ pc[1] = "done"
  /\ Len(invoked[1]) = 4
  /\ invoked[1][3] = [op |-> "commit_transaction", uuid |-> 1, raised |-> "save"]
  /\ invoked[1][4].op = "rollback_transaction"
  /\ result[1].kind = "raised"
  /\ result[1].error = "save"

\* The invocation of enroll that call p made, if it made one.
EnrollOf(p) == {invoked[p][i] : i \in {j \in 1..Len(invoked[p]) : invoked[p][j].op = "enroll"}}

\* C27: enroll is invoked only with a transaction that exists in the ledger under
\* the call's idempotency key; and a call that retries, with the same inputs, a
\* call whose enroll raised or timed out invokes enroll with the same transaction
\* as the failed attempt did.
C27_ProvisionerGetsSameTransaction ==
  /\ \A p \in Calls :
       pc[p] = "enroll" =>
         \E r \in ledger : /\ r.uuid = txn[p].uuid
                           /\ r.idempotency_key = txn[p].idempotency_key
                           /\ r.idempotency_key = redemption_key(args[p], txn[p].quantity)
  /\ \A p, q \in Calls :
       ( /\ q \in endedBefore[p]
         /\ args[p] = args[q]
         /\ ProvisionerRaised(q) )
       => \A e \in EnrollOf(p), f \in EnrollOf(q) : e.uuid = f.uuid

\* The steps of an is_redeemable call made on the subsidy.
IsRedeemableStep ==
  /\ readCase' /= readCase
  /\ readCase'.op \in {"ask", "store", "balance", "is_redeemable"}

\* C28: is_redeemable has no side effect on the ledger: whatever the ledger holds
\* and whatever the redeem calls do between its steps, no step of it creates a
\* transaction, changes a transaction or changes the balance, whether it returns
\* or raises.
C28_IsRedeemableLeavesLedger ==
  [][IsRedeemableStep
       => /\ ledger' = ledger
          /\ current_balance(ledger') = current_balance(ledger)]_vars

\* is_redeemable was called, and answered True, on a ledger that holds a committed
\* transaction, while a redeem call beside it created its transaction.
C28_Witness ==
  /\ readCase.op = "is_redeemable"
  /\ readCase.redeemable
  /\ \E r \in ledger : r.state = COMMITTED /\ r.uuid > MaxCalls
  /\ \E r \in ledger : r.state = CREATED /\ r.uuid <= MaxCalls

\* How many times call p has invoked the operation op.
TimesInvoked(p, op) == Cardinality({i \in 1..Len(invoked[p]) : invoked[p][i].op = op})

\* C29: within one redeem call nothing is retried: create_transaction, enroll and
\* commit_transaction are each invoked at most once; and the call ends in exactly
\* one of four ways: it returns (existing transaction, False), (None, False) or
\* (committed transaction, True), or it raises.
C29_NoRetryFourOutcomes ==
  \A p \in Calls :
    /\ \A op \in {"create_transaction", "enroll", "commit_transaction"} :
         TimesInvoked(p, op) <= 1
    /\ pc[p] /= "done" => result[p] = NoResult
    /\ pc[p] = "done" =>
         \/ /\ result[p].kind = "returned"
            /\ ~result[p].created
            /\ result[p].txn /= NoTxn
            /\ result[p].txn.state = COMMITTED
            /\ invoked[p] = <<>>
         \/ result[p] = Returned(NoTxn, FALSE) /\ invoked[p] = <<>>
         \/ /\ result[p].kind = "returned"
            /\ result[p].created
            /\ result[p].txn /= NoTxn
            /\ result[p].txn.state = COMMITTED
            /\ TimesInvoked(p, "commit_transaction") = 1
         \/ result[p].kind = "raised" /\ result[p].txn = NoTxn /\ ~result[p].created

\* A call invoked create_transaction, enroll and commit_transaction once each and
\* returned (committed transaction, True).
C29_Witness ==
  /\ pc[1] = "done"
  /\ result[1].kind = "returned"
  /\ result[1].created
  /\ result[1].txn.state = COMMITTED
  /\ Len(invoked[1]) = 3
  /\ TimesInvoked(1, "create_transaction") = 1
  /\ TimesInvoked(1, "enroll") = 1
  /\ TimesInvoked(1, "commit_transaction") = 1

\* C30: when two concurrent calls share one ledger transaction and one of them has
\* committed it, the rollback of the other, whose enroll or commit failed, does
\* not void, delete or change the committed transaction.
C30_RollbackKeepsCommitted ==
  [][\A p \in Calls :
       ( /\ Len(invoked'[p]) > Len(invoked[p])
         /\ invoked'[p][Len(invoked'[p])].op = "rollback_transaction" )
       => \A r \in ledger :
            (r.uuid = txn[p].uuid /\ r.state = COMMITTED) => r \in ledger']_vars

\* Two calls in flight together shared one transaction; one committed it, the
\* enroll of the other raised and the call rolled back; the row is committed.
C30_Witness ==
  \E p, q \in Ended :
    /\ p /= q
    /\ q \notin endedBefore[p] /\ p \notin endedBefore[q]
    /\ txn[p].uuid = txn[q].uuid
    /\ ProvisionerRaised(p)
    /\ invoked[p][Len(invoked[p])].op = "rollback_transaction"
    /\ result[q].kind = "returned" /\ result[q].created
    /\ \E r \in ledger : r.uuid = txn[p].uuid /\ r.state = COMMITTED

\* ------------------------------------------------------------------- C31
\* The steps in which call p inserts a new transaction (the ledger's get-or-create
\* found no row under the call's key).
CreatesTransaction(p) ==
  /\ pc[p] = "create_txn"
  /\ pc'[p] = "enroll"
  /\ txn'[p] \notin ledger

\* C31: in every redeem call that creates a transaction, the debited quantity is
\* the negative of the price the call's is_redeemable check compared with the
\* balance, also when the price cache is cleared or the oracle's price changes
\* between the check and the creation.
C31_DebitIsComparedPrice ==
  [][\A p \in Calls :
       CreatesTransaction(p) => txn'[p].quantity = -1 * contentPrice[p]]_vars

====
